---- MODULE Spec2Model ----
(***************************************************************************)
(* A model of OpenLogReplicator's memory arena (Ctx::getMemoryChunk,       *)
(* Ctx::freeMemoryChunk, Ctx::stopHard), of the per-transaction swap       *)
(* bookkeeping (Ctx::swappedMemoryGet and its siblings) and of the        *)
(* builder's output queue                                                  *)
(* (Builder::builderBegin / append / builderRotate / builderCommit).       *)
(*                                                                         *)
(* Unsigned 64-bit counters are kept as integers; a negative value v       *)
(* stands for the wrapped value 2^64 + v, and UGT/ULT/UGE compare them as  *)
(* the hardware does.                                                      *)
(***************************************************************************)
EXTENDS Integers, Sequences, FiniteSets, TLC

VARIABLES
    cfg,                      \* the chunk limits set by Ctx::initialize
    memoryChunksFree,         \* Ctx::memoryChunksFree
    memoryChunksAllocated,    \* Ctx::memoryChunksAllocated
    memoryModulesAllocated,   \* Ctx::memoryModulesAllocated[MEMORY]
    outOfMemoryParser,        \* Ctx::outOfMemoryParser
    hardShutdown,             \* Ctx::hardShutdown
    softShutdown,             \* Ctx::softShutdown
    stopPc,                   \* position of the thread running Ctx::stopHard
    pc,                       \* per thread: position inside getMemoryChunk
    req,                      \* per thread: the (module, swap) of its call
    swapChunks,               \* Ctx::swapChunks: xid -> SwapChunk
    swappedFlushXid,          \* Ctx::swappedFlushXid (0: none)
    swappedShrinkXid,         \* Ctx::swappedShrinkXid (0: none)
    commitedXids,             \* Ctx::commitedXids
    chunksMemoryManager,      \* the memory manager has been notified
    owned,                    \* the chunks handed out for TRANSACTIONS
    freedTwice,               \* chunks given to freeMemoryChunk while not owned
    swPc,                     \* per caller: position inside a swappedMemory call
    swCall,                   \* per caller: the locals of its call
    swRet,                    \* per caller: how its last call ended
    queue,                    \* the BuilderQueue nodes, firstBuilderQueue first
    msg,                      \* Builder::msg: node and offset of the header
    messageSize,              \* Builder::messageSize
    messagePosition,          \* Builder::messagePosition
    unconfirmedSize,          \* Builder::unconfirmedSize
    flushBuffer,              \* Builder::flushBuffer
    id,                       \* Builder::id
    pending,                  \* bytes that append(str, size) has yet to write
    committed,                \* the messages builderCommit has completed
    headers,                  \* where a message header has been laid out
    bPc,                      \* position of the thread that runs the builder
    replicatorFinished,       \* Ctx::replicatorFinished
    ckPc,                     \* position of the checkpoint thread in Checkpoint::run
    lastWrite,                \* the last writeCheckpoint call: periodic or final
    finalWrites,              \* the number of writeCheckpoint(final = true) calls
    configFile,               \* the config file on disk: what a reload finds
    configFileStat,           \* trackConfigFile's configFileStat.st_mtime
    configFileChange,         \* Checkpoint::configFileChange
    reloadError,              \* the code of the error the last reload ended with
    newSchemaElements,        \* Metadata::newSchemaElements, the pending filter set
    schemaElements,           \* Metadata::schemaElements, the committed filter set
    maps,                     \* the filter set the schema maps are built for
    touched,                  \* tables are marked as touched
    mtxTransaction,           \* the owner of Metadata::mtxTransaction
    rpPc,                     \* position of the thread that replays transactions
    number,                   \* the decimal whose wire format is decoded
    data,                     \* the bytes of the column given to parseNumber
    valueBuffer,              \* Builder::valueBuffer, valueSize characters of it
    thrown,                   \* the code of the exception a value ended with
    lob,                      \* the locator and the LobData given to parseLob
    lobResult,                \* what parseLob returned, emitted and warned
    mainPc,                   \* position of the main thread in Ctx::mainLoop
    openFiles,                \* the descriptors the checkpoint thread holds open
    escaped,                  \* what appendEscape has appended to the message
    timezone                  \* a time zone: its text, parsed and written again

arenaVars == <<cfg, memoryChunksFree, memoryChunksAllocated, memoryModulesAllocated,
               outOfMemoryParser, hardShutdown, softShutdown, stopPc, pc, req>>

swapVars == <<swapChunks, swappedFlushXid, swappedShrinkXid, commitedXids,
              chunksMemoryManager, owned, freedTwice, swPc, swCall, swRet>>

builderVars == <<queue, msg, messageSize, messagePosition, unconfirmedSize,
                 flushBuffer, id, pending, committed, headers, bPc>>

checkpointVars == <<replicatorFinished, ckPc, lastWrite, finalWrites, configFile,
                    configFileStat, configFileChange, reloadError, newSchemaElements,
                    schemaElements, maps, touched, mtxTransaction, rpPc>>

valueVars == <<number, data, valueBuffer, thrown, lob, lobResult>>

otherVars == <<mainPc, openFiles, escaped, timezone>>

vars == <<arenaVars, swapVars, builderVars, checkpointVars, valueVars, otherVars>>

-----------------------------------------------------------------------------
(* Bounds of the model *)

\* the reader and the builder are asked for at most this many chunks at a
\* time: one more than their minimum of 4 MB
MaxHeld == 5

\* the parser and the transactions are each asked for at most this many
MaxHeldOther == 2

-----------------------------------------------------------------------------
(* Program constants *)

MEMORY_CHUNK_SIZE_MB == 1
MEMORY_CHUNK_MIN_MB == 16

READER == "READER"
BUILDER == "BUILDER"
PARSER == "PARSER"
TRANSACTIONS == "TRANSACTIONS"
MEMORY == {BUILDER, PARSER, READER, TRANSACTIONS}

Absent == -1

\* unsigned comparison of counters that may have wrapped below zero
UGT(a, b) == IF (a < 0) = (b < 0) THEN a > b ELSE a < 0
ULT(a, b) == UGT(b, a)
UGE(a, b) == ~ULT(a, b)

-----------------------------------------------------------------------------
(* OpenLogReplicator::run: the "memory" section of a source *)

MemoryDefaults ==
    [ok |-> TRUE,
     memoryMinMb |-> 32, memoryMaxMb |-> 2048,
     memoryReadBufferMaxMb |-> 128, memoryReadBufferMinMb |-> 4,
     memorySwapMb |-> (2048 * 3) \div 4,
     memoryUnswapBufferMinMb |-> 4,
     memoryWriteBufferMaxMb |-> 2048, memoryWriteBufferMinMb |-> 4]

RoundMb(v) == (v \div MEMORY_CHUNK_SIZE_MB) * MEMORY_CHUNK_SIZE_MB

Reject(c) == [c EXCEPT !.ok = FALSE]

ApplyMinMb(c, j) ==
    IF ~c.ok \/ j.minMb = Absent THEN c
    ELSE LET v == RoundMb(j.minMb) IN
         IF v < MEMORY_CHUNK_MIN_MB THEN Reject(c)
         ELSE [c EXCEPT !.memoryMinMb = v]

ApplyMaxMb(c, j) ==
    IF ~c.ok \/ j.maxMb = Absent THEN c
    ELSE LET v == RoundMb(j.maxMb) IN
         IF v < c.memoryMinMb THEN Reject(c)
         ELSE [c EXCEPT !.memoryMaxMb = v,
                        !.memoryReadBufferMaxMb = IF v \div 8 > 128 THEN 128 ELSE v \div 8,
                        !.memoryWriteBufferMaxMb = IF v > 2048 THEN 2048 ELSE v,
                        !.memorySwapMb = (v * 3) \div 4]

ApplyUnswapBufferMinMb(c, j) ==
    IF ~c.ok \/ j.unswapBufferMinMb = Absent THEN c
    ELSE [c EXCEPT !.memoryUnswapBufferMinMb = RoundMb(j.unswapBufferMinMb)]

ApplySwapMb(c, j) ==
    IF ~c.ok \/ j.swapMb = Absent THEN c
    ELSE LET v == RoundMb(j.swapMb) IN
         IF UGT(v, c.memoryMaxMb - 4) THEN Reject(c)
         ELSE [c EXCEPT !.memorySwapMb = v]

ApplyReadBufferMinMb(c, j) ==
    IF ~c.ok \/ j.readBufferMinMb = Absent THEN c
    ELSE LET v == RoundMb(j.readBufferMinMb) IN
         IF v > c.memoryMaxMb \/ v < 4 THEN Reject(c)
         ELSE [c EXCEPT !.memoryReadBufferMinMb = v]

ApplyReadBufferMaxMb(c, j) ==
    IF ~c.ok \/ j.readBufferMaxMb = Absent THEN c
    ELSE LET v == RoundMb(j.readBufferMaxMb) IN
         IF v > c.memoryMaxMb \/ v < c.memoryReadBufferMinMb THEN Reject(c)
         ELSE [c EXCEPT !.memoryReadBufferMaxMb = v]

ApplyWriteBufferMinMb(c, j) ==
    IF ~c.ok \/ j.writeBufferMinMb = Absent THEN c
    ELSE LET v == RoundMb(j.writeBufferMinMb) IN
         IF v > c.memoryMaxMb \/ v < 4 THEN Reject(c)
         ELSE [c EXCEPT !.memoryWriteBufferMinMb = v]

ApplyWriteBufferMaxMb(c, j) ==
    IF ~c.ok \/ j.writeBufferMaxMb = Absent THEN c
    ELSE LET v == RoundMb(j.writeBufferMaxMb) IN
         IF v > c.memoryMaxMb \/ v < c.memoryWriteBufferMinMb THEN Reject(c)
         ELSE [c EXCEPT !.memoryWriteBufferMaxMb = v]

CheckMinimaSum(c) ==
    IF ~c.ok THEN c
    ELSE IF c.memoryUnswapBufferMinMb + c.memoryReadBufferMinMb
                + c.memoryWriteBufferMinMb + 4 > c.memoryMaxMb
         THEN Reject(c)
         ELSE c

\* the values run() passes to Ctx::initialize for the memory object j
\* (j.has = FALSE: the source has no "memory" member)
RunMemory(j) ==
    IF ~j.has THEN MemoryDefaults
    ELSE CheckMinimaSum(
           ApplyWriteBufferMaxMb(
             ApplyWriteBufferMinMb(
               ApplyReadBufferMaxMb(
                 ApplyReadBufferMinMb(
                   ApplySwapMb(
                     ApplyUnswapBufferMinMb(
                       ApplyMaxMb(
                         ApplyMinMb(MemoryDefaults, j), j), j), j), j), j), j), j))

\* Ctx::initialize: megabytes to chunks
Initialize(c) ==
    [memoryChunksMin |-> c.memoryMinMb \div MEMORY_CHUNK_SIZE_MB,
     memoryChunksMax |-> c.memoryMaxMb \div MEMORY_CHUNK_SIZE_MB,
     memoryChunksSwap |-> c.memorySwapMb \div MEMORY_CHUNK_SIZE_MB,
     memoryChunksReadBufferMax |-> c.memoryReadBufferMaxMb \div MEMORY_CHUNK_SIZE_MB,
     memoryChunksReadBufferMin |-> c.memoryReadBufferMinMb \div MEMORY_CHUNK_SIZE_MB,
     memoryChunksUnswapBufferMin |-> c.memoryUnswapBufferMinMb \div MEMORY_CHUNK_SIZE_MB,
     memoryChunksWriteBufferMax |-> c.memoryWriteBufferMaxMb \div MEMORY_CHUNK_SIZE_MB,
     memoryChunksWriteBufferMin |-> c.memoryWriteBufferMinMb \div MEMORY_CHUNK_SIZE_MB]

NoMemory ==
    [has |-> FALSE, minMb |-> Absent, maxMb |-> Absent, unswapBufferMinMb |-> Absent,
     swapMb |-> Absent, readBufferMinMb |-> Absent, readBufferMaxMb |-> Absent,
     writeBufferMinMb |-> Absent, writeBufferMaxMb |-> Absent]

Json(minMb, maxMb, unswapMb, writeMaxMb) ==
    [NoMemory EXCEPT !.has = TRUE, !.minMb = minMb, !.maxMb = maxMb,
                     !.unswapBufferMinMb = unswapMb, !.writeBufferMaxMb = writeMaxMb]

\* the "memory" objects the model starts from; run() rejects the last four
JsonConfigs ==
    { Json(16, 17, 5, 4),
      Json(4096, Absent, Absent, Absent),
      Json(8, 16, Absent, Absent),
      Json(17, 16, Absent, Absent),
      Json(16, 17, 6, Absent),
      Json(16, 16, Absent, 3) }

AcceptedConfigs == { j \in JsonConfigs : RunMemory(j).ok }

-----------------------------------------------------------------------------
(* The threads that use the arena, and what each asks it for *)

Threads == {"reader", "parser", "memmgr"}

\* the (module, swap) requests a thread issues
Requests(t) ==
    CASE t = "reader" -> {[module |-> READER, swap |-> FALSE]}
      [] t = "parser" -> {[module |-> m, swap |-> FALSE] : m \in {PARSER, TRANSACTIONS, BUILDER}}
      [] t = "memmgr" -> {[module |-> TRANSACTIONS, swap |-> TRUE]}

NoRequest == [module |-> "none", swap |-> FALSE]

\* the modules a thread gives chunks back for ("writer" only frees)
Frees(t) ==
    CASE t = "reader" -> {READER}
      [] t = "parser" -> {PARSER, TRANSACTIONS}
      [] t = "memmgr" -> {TRANSACTIONS}
      [] t = "writer" -> {BUILDER}

Freers == Threads \cup {"writer"}

HeldCap(module) == IF module \in {READER, BUILDER} THEN MaxHeld ELSE MaxHeldOther

-----------------------------------------------------------------------------
(* Ctx::getMemoryChunk *)

memoryChunksMin == cfg.memoryChunksMin
memoryChunksMax == cfg.memoryChunksMax
memoryChunksReadBufferMin == cfg.memoryChunksReadBufferMin
memoryChunksUnswapBufferMin == cfg.memoryChunksUnswapBufferMin
memoryChunksWriteBufferMax == cfg.memoryChunksWriteBufferMax
memoryChunksWriteBufferMin == cfg.memoryChunksWriteBufferMin

\* lines 783-789: a reader or a builder below its minimum is served at once
BelowOwnMin(module) ==
    \/ module = READER /\ ULT(memoryModulesAllocated[READER], memoryChunksReadBufferMin)
    \/ module = BUILDER /\ ULT(memoryModulesAllocated[BUILDER], memoryChunksWriteBufferMin)

\* lines 791-797
reservedChunks(swap) ==
    (IF ULT(memoryModulesAllocated[READER], memoryChunksReadBufferMin)
        THEN memoryChunksReadBufferMin - memoryModulesAllocated[READER] ELSE 0)
  + (IF ULT(memoryModulesAllocated[BUILDER], memoryChunksWriteBufferMin)
        THEN memoryChunksWriteBufferMin - memoryModulesAllocated[BUILDER] ELSE 0)
  + (IF ~swap THEN memoryChunksUnswapBufferMin ELSE 0)

\* a mutant of Evaluate: the pool may be drawn down to one below the reserve
EvaluateAtReserve(module, swap) ==
    IF BelowOwnMin(module) THEN "take"
    ELSE IF module # BUILDER
            \/ ULT(memoryModulesAllocated[BUILDER], memoryChunksWriteBufferMax)
         THEN IF UGE(memoryChunksFree, reservedChunks(swap)) THEN "take"
              ELSE IF ULT(memoryChunksAllocated, memoryChunksMax) THEN "alloc"
              ELSE "wait"
         ELSE "wait"

\* one pass of the while (true) loop, lines 782-817: leave the loop to take a
\* chunk of the pool, get a chunk from the OS first, or go on to wait
Evaluate(module, swap) ==
    IF BelowOwnMin(module) THEN "take"
    ELSE IF module # BUILDER
            \/ ULT(memoryModulesAllocated[BUILDER], memoryChunksWriteBufferMax)
         THEN IF UGT(memoryChunksFree, reservedChunks(swap)) THEN "take"
              ELSE IF ULT(memoryChunksAllocated, memoryChunksMax) THEN "alloc"
              ELSE "wait"
         ELSE "wait"

\* lines 832-840, with the mutex released at 841
TakeCounters(module, fromOs) ==
    /\ memoryChunksFree' = IF fromOs THEN memoryChunksFree ELSE memoryChunksFree - 1
    /\ memoryChunksAllocated' =
           IF fromOs THEN memoryChunksAllocated + 1 ELSE memoryChunksAllocated
    /\ memoryModulesAllocated' =
           [memoryModulesAllocated EXCEPT ![module] = @ + 1]

TakeChunk(t, r, fromOs) ==
    /\ outOfMemoryParser' = IF r.module = PARSER THEN FALSE ELSE outOfMemoryParser
    /\ TakeCounters(r.module, fromOs)
    /\ pc' = [pc EXCEPT ![t] = "out"]
    /\ req' = [req EXCEPT ![t] = r]

\* lines 819-828: mark the parser, give up on hard shutdown, else wait
NoChunk(t, r) ==
    /\ outOfMemoryParser' = IF r.module = PARSER THEN TRUE ELSE outOfMemoryParser
    /\ pc' = [pc EXCEPT ![t] = IF hardShutdown THEN "null" ELSE "wait"]
    /\ req' = [req EXCEPT ![t] = r]
    /\ UNCHANGED <<memoryChunksFree, memoryChunksAllocated, memoryModulesAllocated>>

\* the critical section of getMemoryChunk from the lock (or the wake-up) to
\* the break or the wait
Attempt(t, r) ==
    LET o == Evaluate(r.module, r.swap) IN
    /\ \/ o = "take" /\ TakeChunk(t, r, FALSE)
       \/ o = "alloc" /\ TakeChunk(t, r, TRUE)
       \/ o = "wait" /\ NoChunk(t, r)
    /\ UNCHANGED <<cfg, hardShutdown, softShutdown, stopPc, swapVars,
                   builderVars, checkpointVars, valueVars, otherVars>>

\* a call of getMemoryChunk(t, module, swap)
GetMemoryChunk(t) ==
    /\ pc[t] = "idle"
    /\ \E r \in Requests(t) :
         /\ memoryModulesAllocated[r.module] < HeldCap(r.module)
         /\ Attempt(t, r)

\* line 828-829: condOutOfMemory.wait returned, the loop runs again
WakeUp(t) ==
    /\ pc[t] = "woken"
    /\ Attempt(t, req[t])

\* lines 844-871: outside the mutex; error 10018 or the chunk is returned
ReturnChunk(t) ==
    /\ pc[t] = "out"
    /\ pc' = [pc EXCEPT ![t] = IF hardShutdown THEN "threw10018" ELSE "idle"]
    /\ req' = [req EXCEPT ![t] = IF hardShutdown THEN @ ELSE NoRequest]
    /\ UNCHANGED <<cfg, memoryChunksFree, memoryChunksAllocated, memoryModulesAllocated,
                   outOfMemoryParser, hardShutdown, softShutdown, stopPc, swapVars,
                   builderVars, checkpointVars, valueVars, otherVars>>

\* a condition variable may wake without a notify
SpuriousWakeUp(t) ==
    /\ pc[t] = "wait"
    /\ pc' = [pc EXCEPT ![t] = "woken"]
    /\ UNCHANGED <<cfg, memoryChunksFree, memoryChunksAllocated, memoryModulesAllocated,
                   outOfMemoryParser, hardShutdown, softShutdown, stopPc, req, swapVars,
                   builderVars, checkpointVars, valueVars, otherVars>>

-----------------------------------------------------------------------------
(* condOutOfMemory.notify_all(), under memoryMtx *)

\* a mutant of NotifyOutOfMemory: the notification reaches nobody
NotifyNobody(p) == p

NotifyOutOfMemory(p) ==
    [t \in DOMAIN p |-> IF p[t] = "wait" THEN "woken" ELSE p[t]]

-----------------------------------------------------------------------------
(* Ctx::freeMemoryChunk *)

\* line 880: the chunk is not one the arena handed out
Throws50001 == memoryChunksFree = memoryChunksAllocated

\* lines 878-895, the critical section of freeMemoryChunk(module, chunk)
FreeChunk(module) ==
    IF Throws50001
    THEN UNCHANGED <<memoryChunksFree, memoryChunksAllocated, memoryModulesAllocated, pc>>
    ELSE /\ IF UGE(memoryChunksFree, memoryChunksMin)
            THEN /\ memoryChunksAllocated' = memoryChunksAllocated - 1
                 /\ UNCHANGED memoryChunksFree
            ELSE /\ memoryChunksFree' = memoryChunksFree + 1
                 /\ UNCHANGED memoryChunksAllocated
         /\ memoryModulesAllocated' =
                [memoryModulesAllocated EXCEPT ![module] = @ - 1]
         /\ pc' = NotifyOutOfMemory(pc)

FreeMemoryChunk(t) ==
    /\ t \in Threads => pc[t] = "idle"
    /\ \E module \in Frees(t) :
         /\ UGT(memoryModulesAllocated[module], 0)
         /\ FreeChunk(module)
    /\ UNCHANGED <<cfg, outOfMemoryParser, hardShutdown, softShutdown, stopPc, req, swapVars,
                   builderVars, checkpointVars, valueVars, otherVars>>

-----------------------------------------------------------------------------
(* Ctx::stopHard *)

\* condMainLoop.notify_all() (lines 1128, 1144): the main thread is woken
\* if it waits in mainLoop; a notification nobody waits for is lost
NotifyMainLoop(main) == IF main = "waiting" THEN "notified" ELSE main

\* lines 1120-1129, under mtx
StopHardFlag ==
    /\ stopPc = "none"
    /\ ~hardShutdown
    /\ hardShutdown' = TRUE
    /\ softShutdown' = TRUE
    /\ mainPc' = NotifyMainLoop(mainPc)
    /\ stopPc' = "flagged"
    /\ UNCHANGED <<cfg, memoryChunksFree, memoryChunksAllocated, memoryModulesAllocated,
                   outOfMemoryParser, pc, req, swapVars, builderVars, checkpointVars,
                   valueVars, openFiles, escaped, timezone>>

\* lines 1130-1133, under memoryMtx
StopHardNotify ==
    /\ stopPc = "flagged"
    /\ pc' = NotifyOutOfMemory(pc)
    /\ stopPc' = "done"
    /\ UNCHANGED <<cfg, memoryChunksFree, memoryChunksAllocated, memoryModulesAllocated,
                   outOfMemoryParser, hardShutdown, softShutdown, req, swapVars,
                   builderVars, checkpointVars, valueVars, otherVars>>

-----------------------------------------------------------------------------
(* Ctx::swappedMemory...: the chunk lists of the transactions *)

\* the transactions
MaxXid == 1
Xids == 1..MaxXid

\* a transaction is grown to at most this many chunks
MaxChunks == 3

\* the addresses of the chunks handed out for transactions; 0 is nullptr
ChunkIds == 1..(MaxXid * MaxChunks + 1)

\* the threads on the transaction side: the parser fills, shrinks and removes
\* transactions, the replay of a transaction reads its chunks and releases them
Callers == {"parser", "replay"}

\* swapChunks.find(xid) == swapChunks.end()
NoSwapChunk ==
    [present |-> FALSE, chunks |-> <<>>, swappedMin |-> -1, swappedMax |-> -1,
     release |-> FALSE]

\* new SwapChunk()
NewSwapChunk == [NoSwapChunk EXCEPT !.present = TRUE]

NoCall == [xid |-> 0, index |-> 0, tc |-> 0, waited |-> FALSE]
NoResult == [op |-> "none", kind |-> "none", xid |-> 0, index |-> 0, chunk |-> 0,
             waited |-> FALSE]

Result(op, kind, xid, index, chunk, waited) ==
    [op |-> op, kind |-> kind, xid |-> xid, index |-> index, chunk |-> chunk,
     waited |-> waited]

\* memory {"min-mb": 16, "max-mb": 17, "unswap-buffer-min-mb": 5,
\* "write-buffer-max-mb": 4}
FixedConfig == Initialize(RunMemory(Json(16, 17, 5, 4)))

\* sc->chunks.at(index), index counted from 0
At(sc, index) == sc.chunks[index + 1]

\* a mutant of OutsideWindow: the ends of the window count as outside
OutsideWindowOpen(sc, index) == index <= sc.swappedMin \/ index >= sc.swappedMax

\* lines 963 and 1045
OutsideWindow(sc, index) == index < sc.swappedMin \/ index > sc.swappedMax

\* what the arena and the other data keep in a step of a swappedMemory call
\* that neither takes nor frees a chunk
SwapArenaUnchanged == UNCHANGED <<arenaVars, builderVars, checkpointVars, valueVars, otherVars>>

\* freeMemoryChunk(t, TRANSACTIONS, tc) called from a swappedMemory function
FreeTransactionChunk(tc) ==
    /\ FreeChunk(TRANSACTIONS)
    /\ owned' = owned \ {tc}
    /\ freedTwice' = IF tc \in owned THEN freedTwice ELSE freedTwice \cup {tc}
    /\ UNCHANGED <<cfg, outOfMemoryParser, hardShutdown, softShutdown, stopPc, req,
                   builderVars, checkpointVars, valueVars, otherVars>>

\* getMemoryChunk(t, TRANSACTIONS, swap) that is served without waiting; the
\* chunk it returns
NewChunk == CHOOSE c \in ChunkIds : c \notin owned /\ \A d \in ChunkIds \ owned : c <= d

CanTake(swap) ==
    /\ Evaluate(TRANSACTIONS, swap) # "wait"
    /\ ChunkIds \ owned # {}

TakeTransactionChunk(swap) ==
    /\ TakeCounters(TRANSACTIONS, Evaluate(TRANSACTIONS, swap) = "alloc")
    /\ owned' = owned \cup {NewChunk}
    /\ UNCHANGED <<cfg, outOfMemoryParser, hardShutdown, softShutdown, stopPc, pc, req,
                   builderVars, checkpointVars, valueVars, otherVars>>

\* chunksTransaction.notify_all()
NotifyTransaction(p) ==
    [t \in DOMAIN p |-> CASE p[t] = "waitGet" -> "wokenGet"
                          [] p[t] = "waitShrink" -> "wokenShrink"
                          [] OTHER -> p[t]]

\* lines 928-936
SwappedMemoryInit(t, xid) ==
    /\ t = "parser" /\ swPc[t] = "idle"
    /\ ~swapChunks[xid].present
    /\ swapChunks' = [swapChunks EXCEPT ![xid] = NewSwapChunk]
    /\ SwapArenaUnchanged
    /\ UNCHANGED <<swappedFlushXid, swappedShrinkXid, commitedXids, chunksMemoryManager,
                   owned, freedTwice, swPc, swCall, swRet>>

\* lines 994-1016, with a getMemoryChunk that is served at once; under hard
\* shutdown the chunk is taken and error 10018 leaves it in nobody's list
SwappedMemoryGrow(t, xid) ==
    /\ t = "parser" /\ swPc[t] = "idle"
    /\ swapChunks[xid].present /\ ~swapChunks[xid].release
    /\ Len(swapChunks[xid].chunks) < MaxChunks
    /\ CanTake(FALSE)
    /\ TakeTransactionChunk(FALSE)
    /\ IF hardShutdown
       THEN /\ swPc' = [swPc EXCEPT ![t] = "threw10018"]
            /\ swRet' = [swRet EXCEPT ![t] = Result("grow", "threw10018", xid, 0, 0, FALSE)]
            /\ UNCHANGED swapChunks
       ELSE /\ swapChunks' = [swapChunks EXCEPT ![xid].chunks = Append(@, NewChunk)]
            /\ swRet' = [swRet EXCEPT ![t] = Result("grow", "chunk", xid,
                                                    Len(swapChunks[xid].chunks), NewChunk, FALSE)]
            /\ UNCHANGED swPc
    /\ UNCHANGED <<swappedFlushXid, swappedShrinkXid, commitedXids, chunksMemoryManager,
                   freedTwice, swCall>>

\* lines 1058-1065
SwappedMemoryFlush(t, xid) ==
    /\ t = "parser" /\ swPc[t] = "idle"
    /\ swapChunks[xid].present /\ ~swapChunks[xid].release
    /\ swappedFlushXid # xid
    /\ swappedFlushXid' = xid
    /\ SwapArenaUnchanged
    /\ UNCHANGED <<swapChunks, swappedShrinkXid, commitedXids, chunksMemoryManager,
                   owned, freedTwice, swPc, swCall, swRet>>

\* the while loop of swappedMemoryGet, lines 961-974, under swapMtx
GetLoop(t, xid, index, waited) ==
    LET sc == swapChunks[xid] IN
    IF hardShutdown
    THEN /\ swRet' = [swRet EXCEPT ![t] = Result("get", "null", xid, index, 0, waited)]
         /\ swPc' = [swPc EXCEPT ![t] = "idle"]
         /\ swCall' = [swCall EXCEPT ![t] = NoCall]
         /\ UNCHANGED chunksMemoryManager
    ELSE IF OutsideWindow(sc, index)
    THEN /\ swRet' = [swRet EXCEPT ![t] =
                         IF index < Len(sc.chunks)
                         THEN Result("get", "chunk", xid, index, At(sc, index), waited)
                         ELSE Result("get", "out_of_range", xid, index, 0, waited)]
         /\ swPc' = [swPc EXCEPT ![t] = "idle"]
         /\ swCall' = [swCall EXCEPT ![t] = NoCall]
         /\ UNCHANGED chunksMemoryManager
    ELSE /\ chunksMemoryManager' = TRUE
         /\ swPc' = [swPc EXCEPT ![t] = "waitGet"]
         /\ swCall' = [swCall EXCEPT ![t] = [xid |-> xid, index |-> index, tc |-> 0,
                                             waited |-> TRUE]]
         /\ UNCHANGED swRet

\* lines 953-975: a call of swappedMemoryGet(t, xid, index)
SwappedMemoryGet(t, xid, index) ==
    /\ t = "replay" /\ swPc[t] = "idle"
    /\ IF ~swapChunks[xid].present
       THEN /\ swRet' = [swRet EXCEPT ![t] = Result("get", "threw50070", xid, index, 0, FALSE)]
            /\ UNCHANGED <<swPc, swCall, chunksMemoryManager>>
       ELSE GetLoop(t, xid, index, FALSE)
    /\ SwapArenaUnchanged
    /\ UNCHANGED <<swapChunks, swappedFlushXid, swappedShrinkXid, commitedXids,
                   owned, freedTwice>>

\* line 969: chunksTransaction.wait returned
GetWakeUp(t) ==
    /\ swPc[t] = "wokenGet"
    /\ GetLoop(t, swCall[t].xid, swCall[t].index, TRUE)
    /\ SwapArenaUnchanged
    /\ UNCHANGED <<swapChunks, swappedFlushXid, swappedShrinkXid, commitedXids,
                   owned, freedTwice>>

\* lines 977-988: the critical section of swappedMemoryRelease(t, xid, index),
\* called for a chunk the caller got from swappedMemoryGet
SwappedMemoryRelease(t, xid, index) ==
    /\ t = "replay" /\ swPc[t] = "idle"
    /\ swapChunks[xid].present
    /\ index < Len(swapChunks[xid].chunks)
    /\ At(swapChunks[xid], index) # 0
    /\ swCall' = [swCall EXCEPT ![t] = [xid |-> xid, index |-> index,
                                        tc |-> At(swapChunks[xid], index), waited |-> FALSE]]
    /\ swapChunks' = [swapChunks EXCEPT ![xid].chunks[index + 1] = 0]
    /\ swPc' = [swPc EXCEPT ![t] = "releaseFree"]
    /\ SwapArenaUnchanged
    /\ UNCHANGED <<swappedFlushXid, swappedShrinkXid, commitedXids, chunksMemoryManager,
                   owned, freedTwice, swRet>>

\* line 991: freeMemoryChunk(t, TRANSACTIONS, tc)
ReleaseFree(t) ==
    /\ swPc[t] = "releaseFree"
    /\ FreeTransactionChunk(swCall[t].tc)
    /\ swPc' = [swPc EXCEPT ![t] = IF Throws50001 THEN "threw50001" ELSE "idle"]
    /\ swRet' = [swRet EXCEPT ![t] = Result("release", IF Throws50001 THEN "threw50001" ELSE "done",
                                            swCall[t].xid, swCall[t].index, swCall[t].tc, FALSE)]
    /\ swCall' = [swCall EXCEPT ![t] = NoCall]
    /\ UNCHANGED <<swapChunks, swappedFlushXid, swappedShrinkXid, commitedXids,
                   chunksMemoryManager>>

\* lines 1018-1030: the first critical section of swappedMemoryShrink(t, xid),
\* called for a transaction that has a chunk
SwappedMemoryShrink(t, xid) ==
    /\ t = "parser" /\ swPc[t] = "idle"
    /\ swapChunks[xid].present /\ ~swapChunks[xid].release
    /\ Len(swapChunks[xid].chunks) > 0
    /\ At(swapChunks[xid], Len(swapChunks[xid].chunks) - 1) # 0
    /\ swCall' = [swCall EXCEPT ![t] =
                     [xid |-> xid, index |-> 0,
                      tc |-> At(swapChunks[xid], Len(swapChunks[xid].chunks) - 1),
                      waited |-> FALSE]]
    /\ swapChunks' = [swapChunks EXCEPT ![xid].chunks =
                         SubSeq(@, 1, Len(@) - 1)]
    /\ swPc' = [swPc EXCEPT ![t] = "shrinkFree"]
    /\ SwapArenaUnchanged
    /\ UNCHANGED <<swappedFlushXid, swappedShrinkXid, commitedXids, chunksMemoryManager,
                   owned, freedTwice, swRet>>

\* line 1032
ShrinkFree(t) ==
    /\ swPc[t] = "shrinkFree"
    /\ FreeTransactionChunk(swCall[t].tc)
    /\ swPc' = [swPc EXCEPT ![t] = IF Throws50001 THEN "threw50001" ELSE "shrinkLock"]
    /\ UNCHANGED <<swapChunks, swappedFlushXid, swappedShrinkXid, commitedXids,
                   chunksMemoryManager, swCall, swRet>>

\* the while loop of swappedMemoryShrink and what follows it, lines 1044-1052
ShrinkLoop(t, xid, index, waited) ==
    LET sc == swapChunks[xid] IN
    IF hardShutdown \/ OutsideWindow(sc, index)
    THEN /\ swappedShrinkXid' = 0
         /\ swRet' = [swRet EXCEPT ![t] = Result("shrink", "chunk", xid, index,
                                                 At(sc, Len(sc.chunks) - 1), waited)]
         /\ swPc' = [swPc EXCEPT ![t] = "idle"]
         /\ swCall' = [swCall EXCEPT ![t] = NoCall]
         /\ UNCHANGED chunksMemoryManager
    ELSE /\ swappedShrinkXid' = xid
         /\ chunksMemoryManager' = TRUE
         /\ swPc' = [swPc EXCEPT ![t] = "waitShrink"]
         /\ swCall' = [swCall EXCEPT ![t] = [xid |-> xid, index |-> index, tc |-> 0,
                                             waited |-> TRUE]]
         /\ UNCHANGED swRet

\* lines 1034-1043: the second critical section up to the loop
ShrinkLock(t) ==
    /\ swPc[t] = "shrinkLock"
    /\ LET xid == swCall[t].xid
           sc == swapChunks[xid] IN
       IF Len(sc.chunks) = 0
       THEN /\ swRet' = [swRet EXCEPT ![t] = Result("shrink", "null", xid, 0, 0, FALSE)]
            /\ swPc' = [swPc EXCEPT ![t] = "idle"]
            /\ swCall' = [swCall EXCEPT ![t] = NoCall]
            /\ UNCHANGED <<swappedShrinkXid, chunksMemoryManager>>
       ELSE ShrinkLoop(t, xid, Len(sc.chunks) - 1, FALSE)
    /\ SwapArenaUnchanged
    /\ UNCHANGED <<swapChunks, swappedFlushXid, commitedXids, owned, freedTwice>>

\* line 1049: chunksTransaction.wait returned
ShrinkWakeUp(t) ==
    /\ swPc[t] = "wokenShrink"
    /\ ShrinkLoop(t, swCall[t].xid, swCall[t].index, TRUE)
    /\ SwapArenaUnchanged
    /\ UNCHANGED <<swapChunks, swappedFlushXid, commitedXids, owned, freedTwice>>

\* lines 1067-1078: the first critical section of swappedMemoryRemove(t, xid)
SwappedMemoryRemove(t, xid) ==
    /\ t = "parser" /\ swPc[t] = "idle"
    /\ swapChunks[xid].present /\ ~swapChunks[xid].release
    /\ swapChunks' = [swapChunks EXCEPT ![xid].release = TRUE]
    /\ swappedFlushXid' = 0
    /\ swCall' = [swCall EXCEPT ![t] = [xid |-> xid, index |-> 0, tc |-> 0, waited |-> FALSE]]
    /\ swPc' = [swPc EXCEPT ![t] = "removeNext"]
    /\ SwapArenaUnchanged
    /\ UNCHANGED <<swappedShrinkXid, commitedXids, chunksMemoryManager, owned, freedTwice,
                   swRet>>

\* lines 1081-1082: for (auto tc: sc->chunks) if (tc != nullptr), read without
\* swapMtx; after the last element the loop ends
RemoveNext(t) ==
    /\ swPc[t] = "removeNext"
    /\ LET sc == swapChunks[swCall[t].xid]
           index == swCall[t].index IN
       IF index >= Len(sc.chunks)
       THEN /\ swPc' = [swPc EXCEPT ![t] = "removeClear"]
            /\ UNCHANGED swCall
       ELSE IF At(sc, index) # 0
       THEN /\ swPc' = [swPc EXCEPT ![t] = "removeFree"]
            /\ swCall' = [swCall EXCEPT ![t].tc = At(sc, index)]
       ELSE /\ swCall' = [swCall EXCEPT ![t].index = index + 1]
            /\ UNCHANGED swPc
    /\ SwapArenaUnchanged
    /\ UNCHANGED <<swapChunks, swappedFlushXid, swappedShrinkXid, commitedXids,
                   chunksMemoryManager, owned, freedTwice, swRet>>

\* line 1083: freeMemoryChunk(t, TRANSACTIONS, tc)
RemoveFree(t) ==
    /\ swPc[t] = "removeFree"
    /\ FreeTransactionChunk(swCall[t].tc)
    /\ swPc' = [swPc EXCEPT ![t] = IF Throws50001 THEN "threw50001" ELSE "removeNext"]
    /\ swCall' = [swCall EXCEPT ![t].index = @ + 1, ![t].tc = 0]
    /\ UNCHANGED <<swapChunks, swappedFlushXid, swappedShrinkXid, commitedXids,
                   chunksMemoryManager, swRet>>

\* lines 1085-1091
RemoveClear(t) ==
    /\ swPc[t] = "removeClear"
    /\ swapChunks' = [swapChunks EXCEPT ![swCall[t].xid].chunks = <<>>]
    /\ commitedXids' = Append(commitedXids, swCall[t].xid)
    /\ chunksMemoryManager' = TRUE
    /\ swRet' = [swRet EXCEPT ![t] = Result("remove", "done", swCall[t].xid, 0, 0, FALSE)]
    /\ swPc' = [swPc EXCEPT ![t] = "idle"]
    /\ swCall' = [swCall EXCEPT ![t] = NoCall]
    /\ SwapArenaUnchanged
    /\ UNCHANGED <<swappedFlushXid, swappedShrinkXid, owned, freedTwice>>

\* a condition variable may wake without a notify
SpuriousWakeUpTransaction(t) ==
    /\ swPc[t] \in {"waitGet", "waitShrink"}
    /\ swPc' = [swPc EXCEPT ![t] = NotifyTransaction(swPc)[t]]
    /\ SwapArenaUnchanged
    /\ UNCHANGED <<swapChunks, swappedFlushXid, swappedShrinkXid, commitedXids,
                   chunksMemoryManager, owned, freedTwice, swCall, swRet>>

-----------------------------------------------------------------------------
(* The memory manager: the swap worker of the specification.  It works      *)
(* between checks of the hard shutdown flag, one chunk per step under        *)
(* swapMtx.                                                                  *)

\* the index the worker writes out next: the window grows at its upper end
\* and never reaches the last chunk, which the transaction is producing into
SwapOutIndex(sc) == IF sc.swappedMax = -1 THEN 0 ELSE sc.swappedMax + 1

MemoryManagerSwapOut(xid) ==
    LET sc == swapChunks[xid]
        index == SwapOutIndex(sc) IN
    /\ ~hardShutdown
    /\ sc.present /\ ~sc.release
    /\ xid # swappedFlushXid /\ xid # swappedShrinkXid
    /\ index < Len(sc.chunks) - 1
    /\ At(sc, index) # 0
    /\ swapChunks' = [swapChunks EXCEPT ![xid].chunks[index + 1] = 0,
                                        ![xid].swappedMax = index,
                                        ![xid].swappedMin = IF @ = -1 THEN index ELSE @]
    /\ FreeTransactionChunk(At(sc, index))
    /\ chunksMemoryManager' = FALSE
    /\ UNCHANGED <<swappedFlushXid, swappedShrinkXid, commitedXids, swPc, swCall, swRet>>

\* the index the worker pages in: the upper end for a shrinking transaction,
\* the lower end for one that is being flushed
SwapInIndex(xid, sc) == IF xid = swappedShrinkXid THEN sc.swappedMax ELSE sc.swappedMin

MemoryManagerSwapIn(xid) ==
    LET sc == swapChunks[xid]
        index == SwapInIndex(xid, sc) IN
    /\ ~hardShutdown
    /\ sc.present /\ ~sc.release
    /\ xid = swappedFlushXid \/ xid = swappedShrinkXid
    /\ sc.swappedMin # -1
    /\ CanTake(TRUE)
    /\ TakeTransactionChunk(TRUE)
    /\ swapChunks' =
         [swapChunks EXCEPT
            ![xid].chunks[index + 1] = NewChunk,
            ![xid].swappedMin = IF sc.swappedMin = sc.swappedMax THEN -1
                                ELSE IF index = sc.swappedMin THEN @ + 1 ELSE @,
            ![xid].swappedMax = IF sc.swappedMin = sc.swappedMax THEN -1
                                ELSE IF index = sc.swappedMax THEN @ - 1 ELSE @]
    /\ swPc' = NotifyTransaction(swPc)
    /\ chunksMemoryManager' = FALSE
    /\ UNCHANGED <<swappedFlushXid, swappedShrinkXid, commitedXids, freedTwice, swCall, swRet>>

-----------------------------------------------------------------------------
(* Builder: the output queue of the producer *)

\* a node holds 8 * DataWords bytes of data (the source: 1 MB less the node
\* header), the header of a message takes 8 * MsgWords bytes
DataWords == 4
MsgWords == 1

\* at most this many builderBegin calls
MaxMessages == 2

\* the sizes of the strings given to append(str, size)
StrSizes == {3}

\* sizeof(struct BuilderQueue): five 8-byte members
BuilderQueueSize == 40

\* sizeof(struct BuilderMsg), a multiple of 8
BuilderMsgSize == 8 * MsgWords

OUTPUT_BUFFER_DATA_SIZE == 8 * DataWords

\* Ctx::MEMORY_CHUNK_SIZE, in bytes
MEMORY_CHUNK_SIZE == OUTPUT_BUFFER_DATA_SIZE + BuilderQueueSize

\* 0xFFFFFFFFFFFFFFFF
BUFFER_START_UNDEFINED == -1

\* the values of the parameter "flush-buffer"
FlushBuffers == {0, 8 * DataWords}

\* what a read of the size field of a message header can give in memory that
\* nobody has written
Garbage == {0, 1}

\* msg == nullptr
NullMsg == [node |-> 0, off |-> 0]

\* a byte of a node: byte k of the message with the id m - 1 (m = 0: not
\* written by the builder); the byte k = 0 of a header carries the header's
\* size field
Cell(m, k, size) == [m |-> m, k |-> k, size |-> size]

\* a chunk as getMemoryChunk returns it, with id, size and start set; no
\* byte of the data is written
NewBuilderQueue(i) ==
    [id |-> i, size |-> 0, start |-> 0,
     data |-> [o \in 1..OUTPUT_BUFFER_DATA_SIZE |-> Cell(0, 0, 0)]]

\* the builder's members as one record
Members ==
    [queue |-> queue, msg |-> msg, messageSize |-> messageSize,
     messagePosition |-> messagePosition, unconfirmedSize |-> unconfirmedSize,
     id |-> id, pending |-> pending, committed |-> committed,
     headers |-> headers]

SetMembers(b, p) ==
    /\ queue' = b.queue
    /\ msg' = b.msg
    /\ messageSize' = b.messageSize
    /\ messagePosition' = b.messagePosition
    /\ unconfirmedSize' = b.unconfirmedSize
    /\ id' = b.id
    /\ pending' = b.pending
    /\ committed' = b.committed
    /\ headers' = b.headers
    /\ bPc' = p
    /\ UNCHANGED flushBuffer

\* lastBuilderQueue
Last(b) == b.queue[Len(b.queue)]

\* the byte at lastBuilderQueue->data + offset is written
WriteLast(b, offset, c) ==
    [b EXCEPT !.queue[Len(b.queue)].data[offset + 1] = c]

\* a mutant of RotateStart: every new node starts at zero
RotateStartZero(fits) == 0

\* nextBuffer->start, Builder.h lines 266 and 271
RotateStart(fits) == IF fits THEN 0 ELSE BUFFER_START_UNDEFINED

\* Builder.h line 262
Fits(b, copy) ==
    /\ copy
    /\ b.msg # NullMsg
    /\ b.messageSize + b.messagePosition < OUTPUT_BUFFER_DATA_SIZE

\* builderRotate(copy) from the moment it has the chunk, lines 256-281
BuilderRotate(b, copy) ==
    LET n == Len(b.queue)
        nextBuffer == [NewBuilderQueue(Last(b).id + 1) EXCEPT
                          !.start = RotateStart(Fits(b, copy))]
        from == b.queue[b.msg.node].data
    IN  IF Fits(b, copy)
        THEN [b EXCEPT
                !.queue = Append(@,
                    [nextBuffer EXCEPT !.data =
                        [o \in 1..OUTPUT_BUFFER_DATA_SIZE |->
                            IF o <= b.messagePosition
                            THEN from[b.msg.off + o] ELSE @[o]]]),
                !.msg = [node |-> n + 1, off |-> 0],
                !.headers = IF b.messagePosition > 0
                            THEN @ \cup {[node |-> n + 1, off |-> 0]} ELSE @]
        ELSE [b EXCEPT
                !.queue = Append([@ EXCEPT ![n].size = @ + b.messagePosition],
                                 nextBuffer),
                !.messageSize = @ + b.messagePosition,
                !.messagePosition = 0]

\* a mutant of BeginSizeField: builderBegin leaves the size field as it
\* finds it
BeginSizeFieldKept(old) == old

\* msg->size = 0, Builder.h line 387
BeginSizeField(old) == 0

\* builderBegin from the assignment of msg, lines 381-393: the header is
\* laid out at the end of the published data of the last node; g is what
\* the size field holds if the memory there was never written
BeginMessage(b, g) ==
    LET at == Last(b).size
        m == b.id + 1
        old == IF Last(b).data[at + 1].m = 0 THEN g ELSE Last(b).data[at + 1].size
        header == [o \in 1..OUTPUT_BUFFER_DATA_SIZE |->
                      IF o = at + 1 THEN Cell(m, 0, BeginSizeField(old))
                      ELSE IF o > at + 1 /\ o <= at + BuilderMsgSize
                           THEN Cell(m, o - at - 1, 0)
                           ELSE Last(b).data[o]]
    IN  [b EXCEPT !.queue[Len(b.queue)].data = header,
                  !.msg = [node |-> Len(b.queue), off |-> at],
                  !.headers = @ \cup {[node |-> Len(b.queue), off |-> at]},
                  !.messagePosition = @ + BuilderMsgSize,
                  !.id = @ + 1]

\* append(char) up to the call of builderShift, lines 415 and 363
AppendByte(b) ==
    LET at == Last(b).size + b.messagePosition
        m == b.queue[b.msg.node].data[b.msg.off + 1].m
    IN  [WriteLast(b, at, Cell(m, b.messageSize + b.messagePosition, 0))
            EXCEPT !.messagePosition = @ + 1]

\* the test of builderShift, line 365
ShiftRotates(b) ==
    Last(b).size + b.messagePosition >= OUTPUT_BUFFER_DATA_SIZE

\* what the arena keeps when the builder takes no chunk
BuilderNoChunk == UNCHANGED <<arenaVars, swapVars, checkpointVars, valueVars, otherVars>>

\* getMemoryChunk(parserThread, BUILDER) that is served
BuilderTakeChunk ==
    /\ TakeCounters(BUILDER, Evaluate(BUILDER, FALSE) = "alloc")
    /\ UNCHANGED <<cfg, outOfMemoryParser, hardShutdown, softShutdown, stopPc, pc, req, swapVars,
                   checkpointVars, valueVars, otherVars>>

\* how a call of builderRotate ends: error 10072 (line 250), a wait inside
\* getMemoryChunk, a null pointer or error 10018 from getMemoryChunk under
\* hard shutdown, or the rotation
RotateOutcome(b) ==
    IF b.messageSize > memoryChunksWriteBufferMax * MEMORY_CHUNK_SIZE THEN "10072"
    ELSE IF Evaluate(BUILDER, FALSE) = "wait"
         THEN IF hardShutdown THEN "null" ELSE "wait"
         ELSE IF hardShutdown THEN "10018" ELSE "ok"

\* builderRotate(true), called by builderBegin (begin) or by builderShift;
\* the write through the null pointer at line 257 ends the process
Rotation(b, begin) ==
    LET o == RotateOutcome(b) IN
    \/ o = "10072" /\ SetMembers(b, "aborted") /\ BuilderNoChunk
    \/ o = "wait" /\ SetMembers(b, "waitChunk") /\ BuilderNoChunk
    \/ o = "null" /\ SetMembers(b, "crashed") /\ BuilderNoChunk
    \/ o = "10018" /\ SetMembers(b, "threw10018") /\ BuilderTakeChunk
    \/ /\ o = "ok"
       /\ \E g \in Garbage :
            LET r == BuilderRotate(b, TRUE) IN
            SetMembers(IF begin THEN BeginMessage(r, g) ELSE r, "msg")
       /\ BuilderTakeChunk

\* builderBegin, Builder.h lines 373-394; a message that an error left open
\* is given up and its msg pointer is still set
BuilderBegin ==
    /\ bPc \in {"idle", "aborted"}
    /\ id < MaxMessages
    /\ LET b == [Members EXCEPT !.messageSize = 0, !.messagePosition = 0,
                                !.pending = 0] IN
       IF Last(b).size + b.messagePosition + BuilderMsgSize >= OUTPUT_BUFFER_DATA_SIZE
       THEN Rotation(b, TRUE)
       ELSE /\ \E g \in Garbage : SetMembers(BeginMessage(b, g), "msg")
            /\ BuilderNoChunk

\* append(char), lines 414-417, with builderShift(true), lines 362-367
AppendOne(b) ==
    LET a == AppendByte(b) IN
    IF ShiftRotates(a) THEN Rotation(a, FALSE)
    ELSE SetMembers(a, "msg") /\ BuilderNoChunk

AppendChar ==
    /\ bPc = "msg"
    /\ pending = 0
    /\ AppendOne(Members)

RECURSIVE AppendBytes(_, _)
\* memcpy and messagePosition += size, lines 421-423
AppendBytes(b, size) ==
    IF size = 0 THEN b ELSE AppendBytes(AppendByte(b), size - 1)

\* append(str, size), lines 419-428: at once when the string ends before the
\* end of the node, else byte by byte: the first byte here, the rest in
\* AppendStrNext
AppendStr(size) ==
    /\ bPc = "msg"
    /\ pending = 0
    /\ IF Last(Members).size + messagePosition + size < OUTPUT_BUFFER_DATA_SIZE
       THEN SetMembers(AppendBytes(Members, size), "msg") /\ BuilderNoChunk
       ELSE AppendOne([Members EXCEPT !.pending = size - 1])

\* the loop of lines 425-426
AppendStrNext ==
    /\ bPc = "msg"
    /\ pending > 0
    /\ AppendOne([Members EXCEPT !.pending = @ - 1])

\* a mutant of Padding: builderCommit leaves the position where the last
\* byte of the message ends
PaddingNone(position) == 0

\* the argument of builderShiftFast at line 402
Padding(position) == (8 - (position % 8)) % 8

\* builderCommit up to msg = nullptr, lines 397-404
BuilderCommit ==
    /\ bPc = "msg"
    /\ pending = 0
    /\ LET size == messageSize + messagePosition
           b == [Members EXCEPT !.messageSize = size]
           m == queue[msg.node].data[msg.off + 1].m
       IN  IF size = BuilderMsgSize
           THEN SetMembers(b, "aborted")
           ELSE SetMembers(
                  [b EXCEPT
                     !.messagePosition = @ + Padding(@),
                     !.unconfirmedSize = @ + size,
                     !.queue[msg.node].data[msg.off + 1].size = size - BuilderMsgSize,
                     !.committed = @ \cup {[m |-> m, node |-> msg.node, off |-> msg.off,
                                            size |-> size - BuilderMsgSize]},
                     !.msg = NullMsg],
                  "commit")
    /\ BuilderNoChunk

\* a mutant of Flushes: a flush as soon as the limit is reached
FlushesAtLimit(b) == flushBuffer = 0 \/ b.unconfirmedSize >= flushBuffer

\* the test of line 409
Flushes(b) == flushBuffer = 0 \/ b.unconfirmedSize > flushBuffer

\* builderCommit from line 405 on: the message is published, the start of
\* the node is set if it has none, and flush() may run (lines 1319-1327)
BuilderCommitPublish ==
    /\ bPc = "commit"
    /\ LET n == Len(queue)
           size == queue[n].size + messagePosition
           b == [Members EXCEPT
                    !.queue[n].size = size,
                    !.queue[n].start = IF @ = BUFFER_START_UNDEFINED THEN size ELSE @]
       IN  SetMembers([b EXCEPT !.unconfirmedSize = IF Flushes(b) THEN 0 ELSE @],
                      "idle")
    /\ BuilderNoChunk

\* the builder waits inside getMemoryChunk for a chunk that the writer does
\* not give back; stopHard wakes it, getMemoryChunk returns the null pointer
\* and builderRotate writes through it
BuilderWakeUp ==
    /\ bPc = "waitChunk"
    /\ stopPc = "done"
    /\ RotateOutcome(Members) = "null"
    /\ SetMembers(Members, "crashed")
    /\ BuilderNoChunk

\* the builder is not constructed yet: Ctx::initialize comes first
NoBuilder ==
    /\ queue = <<>>
    /\ msg = NullMsg
    /\ messageSize = 0
    /\ messagePosition = 0
    /\ unconfirmedSize = 0
    /\ flushBuffer = 0
    /\ id = 0
    /\ pending = 0
    /\ committed = {}
    /\ headers = {}
    /\ bPc = "idle"

\* Builder::initialize: the first node of the queue, taken from the arena
BuilderInitialize ==
    /\ queue = <<NewBuilderQueue(0)>>
    /\ msg = NullMsg
    /\ messageSize = 0
    /\ messagePosition = 0
    /\ unconfirmedSize = 0
    /\ id = 0
    /\ pending = 0
    /\ committed = {}
    /\ headers = {}
    /\ bPc = "idle"

-----------------------------------------------------------------------------
(* Checkpoint: the thread that writes checkpoints and reloads the config *)

\* the config file is changed at most this many times while the program runs
MaxEdits == 2

\* the main thread has not entered mainLoop, no file is open, nothing is
\* escaped and no time zone is parsed
NoTimezone == [str |-> <<>>, ret |-> FALSE, out |-> 0, text |-> <<>>]
NoEscape == [str |-> <<>>, out |-> <<>>, done |-> FALSE]

NoOther ==
    /\ mainPc = "start"
    /\ openFiles = 0
    /\ escaped = NoEscape
    /\ timezone = NoTimezone

\* no value is being decoded
NoNumber == [negative |-> FALSE, n |-> 0, k |-> 0]
NoLob == [layout |-> "none"]

NoValue ==
    /\ number = NoNumber
    /\ data = <<>>
    /\ valueBuffer = <<>>
    /\ thrown = 0
    /\ lob = NoLob
    /\ lobResult = <<>>

\* the thread is constructed with the modification time of the config file
\* that was read at startup (Checkpoint.cpp lines 34-44); the filter set of
\* that file, numbered 0, is committed and the schema maps are built for it
CheckpointInitialize ==
    /\ replicatorFinished = FALSE
    /\ ckPc = "loop"
    /\ lastWrite = "none"
    /\ finalWrites = 0
    /\ configFile = [kind |-> "good", mtime |-> 0]
    /\ configFileStat = 0
    /\ configFileChange = 0
    /\ reloadError = 0
    /\ newSchemaElements = {}
    /\ schemaElements = {0}
    /\ maps = {0}
    /\ touched = FALSE
    /\ mtxTransaction = "none"
    /\ rpPc = "idle"

-----------------------------------------------------------------------------
(* The transactions' chunk lists with the arena below them *)

InitSwap ==
    /\ cfg = FixedConfig
    /\ memoryChunksFree = FixedConfig.memoryChunksMin
    /\ memoryChunksAllocated = FixedConfig.memoryChunksMin
    /\ memoryModulesAllocated = [m \in MEMORY |-> 0]
    /\ outOfMemoryParser = FALSE
    /\ hardShutdown = FALSE
    /\ softShutdown = FALSE
    /\ CheckpointInitialize
    /\ NoOther
    /\ NoValue
    /\ stopPc = "none"
    /\ pc = [t \in Threads |-> "idle"]
    /\ req = [t \in Threads |-> NoRequest]
    /\ swapChunks = [x \in Xids |-> NoSwapChunk]
    /\ swappedFlushXid = 0
    /\ swappedShrinkXid = 0
    /\ commitedXids = <<>>
    /\ chunksMemoryManager = FALSE
    /\ owned = {}
    /\ freedTwice = {}
    /\ swPc = [t \in Callers |-> "idle"]
    /\ swCall = [t \in Callers |-> NoCall]
    /\ swRet = [t \in Callers |-> NoResult]
    /\ NoBuilder

NextSwap ==
    \/ \E t \in Callers, xid \in Xids : SwappedMemoryInit(t, xid)
    \/ \E t \in Callers, xid \in Xids : SwappedMemoryGrow(t, xid)
    \/ \E t \in Callers, xid \in Xids : SwappedMemoryFlush(t, xid)
    \/ \E t \in Callers, xid \in Xids, index \in 0..(MaxChunks - 1) :
          SwappedMemoryGet(t, xid, index)
    \/ \E t \in Callers : GetWakeUp(t)
    \/ \E t \in Callers, xid \in Xids, index \in 0..(MaxChunks - 1) :
          SwappedMemoryRelease(t, xid, index)
    \/ \E t \in Callers : ReleaseFree(t)
    \/ \E t \in Callers, xid \in Xids : SwappedMemoryShrink(t, xid)
    \/ \E t \in Callers : ShrinkFree(t)
    \/ \E t \in Callers : ShrinkLock(t)
    \/ \E t \in Callers : ShrinkWakeUp(t)
    \/ \E t \in Callers, xid \in Xids : SwappedMemoryRemove(t, xid)
    \/ \E t \in Callers : RemoveNext(t)
    \/ \E t \in Callers : RemoveFree(t)
    \/ \E t \in Callers : RemoveClear(t)
    \/ \E t \in Callers : SpuriousWakeUpTransaction(t)
    \/ \E xid \in Xids : MemoryManagerSwapOut(xid)
    \/ \E xid \in Xids : MemoryManagerSwapIn(xid)
    \/ StopHardFlag
    \/ StopHardNotify

SpecSwap == InitSwap /\ [][NextSwap]_vars

\* a thread that can run does run, and so does the memory manager
ProgressSwap ==
    \/ \E t \in Callers : GetWakeUp(t) \/ ShrinkWakeUp(t) \/ ShrinkFree(t) \/ ShrinkLock(t)
    \/ \E xid \in Xids : MemoryManagerSwapIn(xid)
    \/ StopHardNotify

FairSwap == SpecSwap /\ WF_vars(ProgressSwap)

-----------------------------------------------------------------------------
(* The arena on its own *)

\* Ctx::initialize, lines 709-718: memoryChunksMin chunks are allocated; the
\* "memory" object is one of configs that run() accepts
InitProgram(configs) ==
    /\ \E j \in { c \in configs : RunMemory(c).ok } :
         /\ cfg = Initialize(RunMemory(j))
         /\ memoryChunksFree = Initialize(RunMemory(j)).memoryChunksMin
         /\ memoryChunksAllocated = Initialize(RunMemory(j)).memoryChunksMin
    /\ memoryModulesAllocated = [m \in MEMORY |-> 0]
    /\ outOfMemoryParser = FALSE
    /\ hardShutdown = FALSE
    /\ softShutdown = FALSE
    /\ CheckpointInitialize
    /\ NoOther
    /\ stopPc = "none"
    /\ pc = [t \in Threads |-> "idle"]
    /\ req = [t \in Threads |-> NoRequest]
    /\ swapChunks = [x \in Xids |-> NoSwapChunk]
    /\ swappedFlushXid = 0
    /\ swappedShrinkXid = 0
    /\ commitedXids = <<>>
    /\ chunksMemoryManager = FALSE
    /\ owned = {}
    /\ freedTwice = {}
    /\ swPc = [t \in Callers |-> "idle"]
    /\ swCall = [t \in Callers |-> NoCall]
    /\ swRet = [t \in Callers |-> NoResult]
    /\ NoBuilder

\* no value is being decoded while the arena and the threads are looked at
InitArena(configs) == InitProgram(configs) /\ NoValue

Init == InitArena(JsonConfigs)

Next ==
    \/ \E t \in Threads : GetMemoryChunk(t)
    \/ \E t \in Threads : WakeUp(t)
    \/ \E t \in Threads : ReturnChunk(t)
    \/ \E t \in Threads : SpuriousWakeUp(t)
    \/ \E t \in Freers : FreeMemoryChunk(t)
    \/ StopHardFlag
    \/ StopHardNotify

Spec == Init /\ [][Next]_vars

\* a thread that can run does run: a woken thread takes the mutex again, a
\* thread past the critical section returns, stopHard goes on to its notify
Progress ==
    \/ \E t \in Threads : WakeUp(t)
    \/ \E t \in Threads : ReturnChunk(t)
    \/ StopHardNotify

FairSpec == Spec /\ WF_vars(Progress)

-----------------------------------------------------------------------------
(* The builder with the arena below it *)

InitBuilder ==
    /\ cfg = FixedConfig
    /\ memoryChunksFree = FixedConfig.memoryChunksMin - 1
    /\ memoryChunksAllocated = FixedConfig.memoryChunksMin
    /\ memoryModulesAllocated = [m \in MEMORY |-> IF m = BUILDER THEN 1 ELSE 0]
    /\ outOfMemoryParser = FALSE
    /\ hardShutdown = FALSE
    /\ softShutdown = FALSE
    /\ CheckpointInitialize
    /\ NoOther
    /\ NoValue
    /\ stopPc = "none"
    /\ pc = [t \in Threads |-> "idle"]
    /\ req = [t \in Threads |-> NoRequest]
    /\ swapChunks = [x \in Xids |-> NoSwapChunk]
    /\ swappedFlushXid = 0
    /\ swappedShrinkXid = 0
    /\ commitedXids = <<>>
    /\ chunksMemoryManager = FALSE
    /\ owned = {}
    /\ freedTwice = {}
    /\ swPc = [t \in Callers |-> "idle"]
    /\ swCall = [t \in Callers |-> NoCall]
    /\ swRet = [t \in Callers |-> NoResult]
    /\ BuilderInitialize
    /\ flushBuffer \in FlushBuffers

NextBuilder ==
    \/ BuilderBegin
    \/ AppendChar
    \/ \E size \in StrSizes : AppendStr(size)
    \/ AppendStrNext
    \/ BuilderCommit
    \/ BuilderCommitPublish
    \/ BuilderWakeUp
    \/ StopHardFlag
    \/ StopHardNotify

SpecBuilder == InitBuilder /\ [][NextBuilder]_vars

-----------------------------------------------------------------------------
(* Claims about the arena *)

\* C1: the number of chunks obtained from the OS never exceeds
\* memoryChunksMax.
C1_AllocatedWithinMax == UGE(memoryChunksMax, memoryChunksAllocated)

\* thread t leaves the loop of getMemoryChunk with a chunk in this step
Served(t) == pc[t] \in {"idle", "woken"} /\ pc'[t] = "out"

\* C2: a request of a module that is not below its own minimum lowers
\* memoryChunksFree only when the pool holds more chunks than are reserved for
\* the others, and so never to below that reserve.
C2_ReserveKept ==
    [][\A t \in Threads :
          (/\ Served(t)
           /\ ~BelowOwnMin(req'[t].module)
           /\ memoryChunksFree' # memoryChunksFree)
          => /\ UGT(memoryChunksFree, reservedChunks(req'[t].swap))
             /\ UGE(memoryChunksFree', reservedChunks(req'[t].swap))]_vars

\* the parser took the last chunk above the reserve
C2_Witness ==
    /\ pc["parser"] = "out"
    /\ req["parser"].module = TRANSACTIONS
    /\ memoryChunksFree = reservedChunks(FALSE)
    /\ reservedChunks(FALSE) > memoryChunksUnswapBufferMin

Suspended(t) == pc[t] = "wait"

\* a suspended thread has not been notified: its request cannot be served and
\* stopHard has not yet reached its notify
NotNotified(t) ==
    Suspended(t) => /\ Evaluate(req[t].module, req[t].swap) = "wait"
                    /\ stopPc # "done"

C4_ShutdownAborts ==
    [][\A t \in Threads :
          (hardShutdown /\ pc[t] \in {"woken", "out"} /\ pc'[t] # pc[t])
          => pc'[t] \in {"out", "threw10018"}]_vars

-----------------------------------------------------------------------------
(* Claims about the transactions' chunk lists *)

\* swappedMemoryGet returns to thread t in this step
GetReturned(t) ==
    /\ swRet'[t].op = "get"
    /\ swRet'[t] # swRet[t] \/ (swPc[t] = "wokenGet" /\ swPc'[t] = "idle")

\* thread t is inside the wait of swappedMemoryGet
BlockedInGet(t) == swPc[t] \in {"waitGet", "wokenGet"}

\* the swapped window of transaction xid covers index
Covers(chunks, xid, index) ==
    chunks[xid].swappedMin <= index /\ index <= chunks[xid].swappedMax

\* C5: swappedMemoryGet hands out the chunk at an index only when the swapped
\* window does not cover the index; a caller that finds the index covered asks
\* the memory manager and blocks, and it leaves the wait only once the window
\* no longer covers the index or hard shutdown is set.
C5_GetOutsideWindow ==
    [][\A t \in Callers :
          /\ (GetReturned(t) /\ swRet'[t].kind = "chunk")
             => /\ ~Covers(swapChunks', swRet'[t].xid, swRet'[t].index)
                /\ swRet'[t].chunk = swapChunks'[swRet'[t].xid].chunks[swRet'[t].index + 1]
          /\ (~BlockedInGet(t) /\ BlockedInGet(t)')
             => /\ Covers(swapChunks', swCall'[t].xid, swCall'[t].index)
                /\ chunksMemoryManager'
          /\ (BlockedInGet(t) /\ ~BlockedInGet(t)')
             => \/ hardShutdown
                \/ ~Covers(swapChunks', swCall[t].xid, swCall[t].index)]_vars

\* a caller that had to wait for the page-in got the chunk that was paged in
C5_Witness ==
    /\ swRet["replay"].op = "get"
    /\ swRet["replay"].kind = "chunk"
    /\ swRet["replay"].waited
    /\ swRet["replay"].chunk # 0
    /\ ~hardShutdown

\* C6: no chunk of a transaction is given to freeMemoryChunk twice, the
\* TRANSACTIONS count is the number of chunks the transactions hold, and a
\* removed transaction has an empty chunk list.
C6_RemoveFreesOnce ==
    /\ freedTwice = {}
    /\ memoryModulesAllocated[TRANSACTIONS] = Cardinality(owned)
    /\ \A i \in DOMAIN commitedXids : swapChunks[commitedXids[i]].chunks = <<>>

\* C7: a thread blocked in swappedMemoryGet or swappedMemoryShrink when hard
\* shutdown is set leaves the wait and its call returns.
C7_ShutdownWakesSwapWaiters ==
    \A t \in Callers :
        (swPc[t] \in {"waitGet", "waitShrink"} /\ hardShutdown)
            ~> (swPc[t] \notin {"waitGet", "waitShrink", "wokenGet", "wokenShrink"})

-----------------------------------------------------------------------------
(* Claims about the builder's queue *)

\* the node and the offset of byte k of a message whose header is at offset
\* o of node n: a message that does not end in its node goes on at offset 0
\* of the next one
NodeOf(n, o, k) == n + ((o + k) \div OUTPUT_BUFFER_DATA_SIZE)
OffsetOf(o, k) == (o + k) % OUTPUT_BUFFER_DATA_SIZE

\* the byte is below the published size of its node
Published(n, o) == n <= Len(queue) /\ o < queue[n].size

\* the consumer takes the message at offset o of node n
Accepts(n, o) ==
    LET size == queue[n].data[o + 1].size IN
    /\ o + BuilderMsgSize <= queue[n].size
    /\ size # 0
    /\ \A k \in 0..(BuilderMsgSize + size - 1) :
          Published(NodeOf(n, o, k), OffsetOf(o, k))

\* builderCommit has completed the message at offset o of node n, its size
\* field is the size of its payload, and each byte of its header and of its
\* payload is a byte the builder wrote for this message
Complete(n, o) ==
    LET c == queue[n].data[o + 1] IN
    /\ [m |-> c.m, node |-> n, off |-> o, size |-> c.size] \in committed
    /\ \A k \in 0..(BuilderMsgSize + c.size - 1) :
          /\ NodeOf(n, o, k) <= Len(queue)
          /\ queue[NodeOf(n, o, k)].data[OffsetOf(o, k) + 1].m = c.m
          /\ queue[NodeOf(n, o, k)].data[OffsetOf(o, k) + 1].k = k

\* C8: a consumer that accepts a message only when its size field is not
\* zero and all its bytes are below the published sizes of the nodes accepts
\* only messages that builderCommit has completed and whose header and
\* payload are written in full; a message left open by a shutdown or by an
\* error during a rotation is never accepted
C8_NoPartialMessage ==
    \A h \in headers : Accepts(h.node, h.off) => Complete(h.node, h.off)

\* a shutdown ended a rotation while the header and the first part of an
\* open message were published already, and a completed message is accepted
C8_Witness ==
    /\ bPc \in {"threw10018", "crashed"}
    /\ \E h \in headers :
          /\ h.off + BuilderMsgSize < queue[h.node].size
          /\ \A c \in committed : c.m # queue[h.node].data[h.off + 1].m
    /\ \E c \in committed : Accepts(c.node, c.off)

\* C9: once the start of a node is defined, no message that builderCommit
\* has completed has its header below the start of the node it begins in
C9_HeaderNotBelowStart ==
    \A c \in committed :
        queue[c.node].start # BUFFER_START_UNDEFINED => c.off >= queue[c.node].start

\* a step in which builderRotate has linked a new node
Rotates == Len(queue') = Len(queue) + 1

\* messagePosition and messageSize when builderRotate is entered: builderBegin
\* has reset them, append has counted the byte it wrote
PositionAtRotate == IF id' # id THEN 0 ELSE messagePosition + 1
SizeAtRotate == IF id' # id THEN 0 ELSE messageSize

\* there is a message in progress and the whole of it still fits in one node
FitsAtRotate ==
    msg # NullMsg /\ SizeAtRotate + PositionAtRotate < OUTPUT_BUFFER_DATA_SIZE

-----------------------------------------------------------------------------
(* Claims about builderCommit *)

\* the part of builderCommit that publishes the message and tests
\* unconfirmedSize; unconfirmedSize counts the message already
CommitPublishes == bPc = "commit" /\ bPc' = "idle"

\* flush() has run in this step: it alone sets unconfirmedSize to zero
Flushed == unconfirmedSize' = 0

\* the statement of C16 as it was made: a builderCommit that finds
\* unconfirmedSize >= flushBuffer signals the consumer and resets
\* unconfirmedSize
C16_FlushAtLimit ==
    [][(CommitPublishes /\ unconfirmedSize >= flushBuffer) => Flushed]_vars

\* C16: after each builderCommit the producer signals the consumer and
\* resets unconfirmedSize to 0 exactly when flushBuffer is 0 or unconfirmedSize
\* is larger than flushBuffer; with flushBuffer = 0 every builderCommit
\* signals the consumer, and a builderCommit that brings unconfirmedSize to
\* exactly flushBuffer does not
C16_FlushAboveLimit ==
    [][CommitPublishes =>
          (Flushed <=> (flushBuffer = 0 \/ unconfirmedSize > flushBuffer))]_vars

\* builderCommit has brought unconfirmedSize to exactly flushBuffer and has
\* not signalled the consumer
C16_Witness ==
    /\ bPc = "idle"
    /\ committed # {}
    /\ flushBuffer # 0
    /\ unconfirmedSize = flushBuffer

\* C18: every message header starts at an offset of its node that is a
\* multiple of 8, and when builderCommit has returned the size of the last
\* node is a multiple of 8 and not larger than the capacity of the node
C18_FramingAligned ==
    /\ \A h \in headers : h.off % 8 = 0
    /\ \A n \in 1..Len(queue) : queue[n].size <= OUTPUT_BUFFER_DATA_SIZE
    /\ (bPc = "idle" /\ queue # <<>>) => queue[Len(queue)].size % 8 = 0

\* a message whose payload is not a multiple of 8 bytes long was committed
\* and the header of the next message is laid out behind it
C18_Witness ==
    /\ \E c \in committed : c.size % 8 # 0
    /\ \E c \in committed, h \in headers :
          h.node = c.node /\ h.off > c.off /\ h.off < c.off + BuilderMsgSize + c.size + 8

\* the message in progress has data in each of the memoryChunksWriteBufferMax
\* nodes the builder may hold: it cannot end before it is larger than that
MessageFillsWriteBuffer ==
    /\ msg # NullMsg
    /\ Len(queue) - msg.node + 1 >= memoryChunksWriteBufferMax
    /\ memoryModulesAllocated[BUILDER] >= memoryChunksWriteBufferMax

\* C17: for a message that does not fit in write-buffer-max-mb the producer
\* does not go on to acquire a further node, it raises error 10072
C17_OversizeRaises == MessageFillsWriteBuffer => bPc # "waitChunk"

-----------------------------------------------------------------------------
(* Ctx::wontSwap: the memory manager has found nothing it can swap out *)

\* a mutant of BuilderAboveMin: a builder at its minimum counts as above it
BuilderAtMin(held, min) == UGE(held, min)

\* the test of Ctx.cpp line 1104
BuilderAboveMin(held, min) == UGT(held, min)

\* lines 1099-1114: error 10017 unless the parser is not marked or the
\* builder holds more than its minimum
WontSwapThrows ==
    /\ outOfMemoryParser
    /\ ~BuilderAboveMin(memoryModulesAllocated[BUILDER], memoryChunksWriteBufferMin)

\* Ctx::wontSwap(t), lines 1095-1115, under memoryMtx
WontSwap(t) ==
    /\ t = "memmgr"
    /\ pc[t] = "idle"
    /\ pc' = [pc EXCEPT ![t] = IF WontSwapThrows THEN "threw10017" ELSE "wontSwapReturned"]
    /\ UNCHANGED <<cfg, memoryChunksFree, memoryChunksAllocated, memoryModulesAllocated,
                   outOfMemoryParser, hardShutdown, softShutdown, stopPc, req, swapVars,
                   builderVars, checkpointVars, valueVars, otherVars>>

\* the memory manager goes on after wontSwap has returned
WontSwapReturn(t) ==
    /\ pc[t] = "wontSwapReturned"
    /\ pc' = [pc EXCEPT ![t] = "idle"]
    /\ UNCHANGED <<cfg, memoryChunksFree, memoryChunksAllocated, memoryModulesAllocated,
                   outOfMemoryParser, hardShutdown, softShutdown, stopPc, req, swapVars,
                   builderVars, checkpointVars, valueVars, otherVars>>

NextWontSwap ==
    \/ \E t \in Threads : GetMemoryChunk(t)
    \/ \E t \in Threads : WakeUp(t)
    \/ \E t \in Threads : ReturnChunk(t)
    \/ \E t \in Threads : SpuriousWakeUp(t)
    \/ \E t \in Freers : FreeMemoryChunk(t)
    \/ \E t \in Threads : WontSwap(t)
    \/ \E t \in Threads : WontSwapReturn(t)
    \/ StopHardFlag
    \/ StopHardNotify

\* write-buffer-max-mb given as 4, and left to follow max-mb
WontSwapConfigs == { Json(16, 17, 5, 4), Json(16, 17, 5, Absent) }

\* the arena with the memory manager's calls of wontSwap
SpecWontSwap == InitArena(WontSwapConfigs) /\ [][NextWontSwap]_vars

\* the parser's request for a PARSER chunk was refused and is not served yet
ParserRefused ==
    /\ req["parser"].module = PARSER
    /\ pc["parser"] \in {"wait", "woken", "null"}

\* C14: wontSwap raises error 10017 only when a request of the parser was
\* refused and the builder holds no more than memoryChunksWriteBufferMin
\* chunks at that moment; in every other case it returns without error and
\* the parser stays where it waits; the step of getMemoryChunk that serves
\* the request of the parser clears outOfMemoryParser
C14_FatalOnlyAtBuilderMin ==
    [][/\ (pc'["memmgr"] = "threw10017" /\ pc["memmgr"] = "idle") =>
            /\ outOfMemoryParser
            /\ ParserRefused
            /\ memoryModulesAllocated[BUILDER] <= memoryChunksWriteBufferMin
       /\ (pc'["memmgr"] = "wontSwapReturned" /\ pc["memmgr"] = "idle") =>
            /\ ~outOfMemoryParser
                  \/ memoryModulesAllocated[BUILDER] > memoryChunksWriteBufferMin
            /\ pc'["parser"] = pc["parser"]
            /\ outOfMemoryParser' = outOfMemoryParser
       /\ (pc'["parser"] = "out" /\ pc["parser"] # "out" /\ req'["parser"].module = PARSER) =>
            ~outOfMemoryParser'
       /\ outOfMemoryParser' => ParserRefused'
      ]_vars

\* wontSwap has returned while the parser is marked and waits, the builder
\* holding more than its minimum
C14_Witness ==
    /\ pc["memmgr"] = "wontSwapReturned"
    /\ outOfMemoryParser
    /\ pc["parser"] = "wait"
    /\ memoryModulesAllocated[BUILDER] > memoryChunksWriteBufferMin

-----------------------------------------------------------------------------
(* The builder's share of the arena *)

\* {"min-mb": 4096, "max-mb": 4096, "write-buffer-min-mb": 2049}: max-mb
\* sets memoryWriteBufferMaxMb to 2048 (lines 271-273 of run()), the minimum
\* is only compared with max-mb (line 318), and the test of the maximum
\* against the minimum (line 333) runs only when "write-buffer-max-mb" is
\* given
WriteBufferConfigs ==
    { [Json(4096, 4096, Absent, Absent) EXCEPT !.writeBufferMinMb = 2049] }

\* getMemoryChunk(parserThread, BUILDER): the builder asks for its next node
BuilderGetMemoryChunk ==
    /\ pc["parser"] = "idle"
    /\ Attempt("parser", [module |-> BUILDER, swap |-> FALSE])

\* the parser thread fills the output queue, the writer gives nodes back
NextWriteBuffer ==
    \/ BuilderGetMemoryChunk
    \/ WakeUp("parser")
    \/ ReturnChunk("parser")
    \/ FreeMemoryChunk("writer")
    \/ StopHardFlag
    \/ StopHardNotify

SpecWriteBuffer == InitArena(WriteBufferConfigs) /\ [][NextWriteBuffer]_vars

\* C15: the builder never holds more chunks than memoryChunksWriteBufferMax,
\* whatever accepted "memory" object the arena was initialized from
C15_BuilderWithinMax ==
    UGE(memoryChunksWriteBufferMax, memoryModulesAllocated[BUILDER])

-----------------------------------------------------------------------------
(* Checkpoint::run, trackConfigFile and updateConfigFile *)

\* what a reload can find on disk: a file that is in order, no file (stat
\* fails), a file that cannot be opened, an empty or too large file, a file
\* that is read short, text that is no JSON, a wrong "version", and a filter
\* whose users differ from the users of the metadata
FileKinds == {"good", "missing", "unreadable", "wrongSize", "shortRead",
              "badJson", "badVersion", "userMissing"}

\* the error a reload of the file ends with (0: none), Checkpoint.cpp lines
\* 64, 74, 77, 87, 107, 119 and 208
ReloadErrorOf(kind) ==
    CASE kind = "good" -> 0
      [] kind = "missing" -> 10003
      [] kind = "unreadable" -> 10001
      [] kind = "wrongSize" -> 10004
      [] kind = "shortRead" -> 10005
      [] kind = "badJson" -> 20001
      [] kind = "badVersion" -> 30001
      [] kind = "userMissing" -> 20007

\* what the steps of the checkpoint thread leave alone
CheckpointNoCtx == UNCHANGED <<arenaVars, swapVars, builderVars, valueVars, otherVars>>

\* Ctx::stopSoft, Ctx.cpp lines 1136-1145
StopSoft ==
    /\ ~softShutdown
    /\ softShutdown' = TRUE
    /\ mainPc' = NotifyMainLoop(mainPc)
    /\ UNCHANGED <<cfg, memoryChunksFree, memoryChunksAllocated, memoryModulesAllocated,
                   outOfMemoryParser, hardShutdown, stopPc, pc, req, swapVars,
                   builderVars, checkpointVars, valueVars, openFiles, escaped, timezone>>

\* the replicator has drained the redo log after a soft shutdown and holds
\* no transaction any more
ReplicatorFinish ==
    /\ softShutdown
    /\ ~replicatorFinished
    /\ rpPc = "idle"
    /\ replicatorFinished' = TRUE
    /\ CheckpointNoCtx
    /\ UNCHANGED <<ckPc, lastWrite, finalWrites, configFile, configFileStat,
                   configFileChange, reloadError, newSchemaElements, schemaElements,
                   maps, touched, mtxTransaction, rpPc>>

\* somebody writes, removes or replaces the config file
EditConfigFile(kind) ==
    /\ configFile.mtime < MaxEdits
    /\ configFile' = [kind |-> kind, mtime |-> configFile.mtime + 1]
    /\ CheckpointNoCtx
    /\ UNCHANGED <<replicatorFinished, ckPc, lastWrite, finalWrites, configFileStat,
                   configFileChange, reloadError, newSchemaElements, schemaElements,
                   maps, touched, mtxTransaction, rpPc>>

\* a step of run() that touches neither the file nor the schema
RunStep(to, write, finals) ==
    /\ ckPc' = to
    /\ lastWrite' = write
    /\ finalWrites' = finals
    /\ CheckpointNoCtx
    /\ UNCHANGED <<replicatorFinished, configFile, configFileStat, configFileChange,
                   reloadError, newSchemaElements, schemaElements, maps, touched,
                   mtxTransaction, rpPc>>

\* a mutant of LeavesLoop: the thread never leaves on a soft shutdown
LeavesLoopNever(soft, finished) == FALSE

\* the test of line 257
LeavesLoop(soft, finished) == soft /\ finished

\* Checkpoint::run, lines 249-280, one read of a shared flag at a time
Run ==
    \* lines 250-252: the test of the while, writeCheckpoint(this, false)
    \* and deleteOldCheckpoints
    \/ /\ ckPc = "loop"
       /\ IF hardShutdown THEN RunStep("afterLoop", lastWrite, finalWrites)
          ELSE RunStep("testHard", "periodic", finalWrites)
    \* lines 254-255
    \/ /\ ckPc = "testHard"
       /\ RunStep(IF hardShutdown THEN "afterLoop" ELSE "testSoft", lastWrite, finalWrites)
    \* lines 257-258
    \/ /\ ckPc = "testSoft"
       /\ RunStep(IF LeavesLoop(softShutdown, replicatorFinished)
                  THEN "afterLoop" ELSE "track", lastWrite, finalWrites)
    \* lines 262-271: condLoop.wait_for returns after 100 ms at the latest
    \/ /\ ckPc = "wait"
       /\ RunStep("loop", lastWrite, finalWrites)
    \* lines 274-275: the final checkpoint
    \/ /\ ckPc = "afterLoop"
       /\ IF softShutdown THEN RunStep("finished", "final", finalWrites + 1)
          ELSE RunStep("finished", lastWrite, finalWrites)
    \* lines 277-279: the RuntimeException is logged and Ctx::stopHard is
    \* called
    \/ /\ ckPc = "caught"
       /\ ckPc' = "finished"
       /\ IF hardShutdown
          THEN UNCHANGED <<hardShutdown, softShutdown, stopPc, mainPc>>
          ELSE /\ hardShutdown' = TRUE
               /\ softShutdown' = TRUE
               /\ stopPc' = "flagged"
               /\ mainPc' = NotifyMainLoop(mainPc)
       /\ UNCHANGED <<cfg, memoryChunksFree, memoryChunksAllocated,
                      memoryModulesAllocated, outOfMemoryParser, pc, req, swapVars,
                      builderVars, valueVars, openFiles, escaped, timezone>>
       /\ UNCHANGED <<replicatorFinished, lastWrite, finalWrites, configFile,
                      configFileStat, configFileChange, reloadError, newSchemaElements,
                      schemaElements, maps, touched, mtxTransaction, rpPc>>

\* Metadata::resetElements and addElement as updateConfigFile calls them
\* (lines 138-203): the pending filter set is the one of the file
AddElements(kind, mtime, elements) ==
    IF kind \in {"good", "userMissing"} THEN {mtime} ELSE elements

\* open(configFileName, O_RDONLY) of line 72 returns a descriptor
Opens(kind) == kind \notin {"missing", "unreadable"}

\* Checkpoint::trackConfigFile up to the schema update
TrackConfigFile ==
    \* lines 62-66: stat fails with RuntimeException 10003, which
    \* trackConfigFile does not catch, or the file is unchanged, or it is
    \* reloaded
    \/ /\ ckPc = "track"
       /\ IF configFile.kind = "missing"
          THEN /\ ckPc' = "caught"
               /\ reloadError' = ReloadErrorOf("missing")
               /\ UNCHANGED configFileStat
          ELSE /\ ckPc' = IF configFile.mtime = configFileChange THEN "wait" ELSE "reload"
               /\ reloadError' = 0
               /\ configFileStat' = configFile.mtime
       /\ CheckpointNoCtx
       /\ UNCHANGED <<replicatorFinished, lastWrite, finalWrites, configFile,
                      configFileChange, newSchemaElements, schemaElements, maps,
                      touched, mtxTransaction, rpPc>>
    \* lines 71-92 and lines 105-215 of updateConfigFile: the file is opened,
    \* read and parsed (a file that has gone since the stat is not opened);
    \* ConfigurationException and DataException are caught and logged (lines
    \* 95-99) and configFileChange is set (line 101); a file in order goes
    \* on to the schema update
    \/ /\ ckPc = "reload"
       /\ newSchemaElements' =
              AddElements(configFile.kind, configFile.mtime, newSchemaElements)
       /\ LET error == IF configFile.kind = "missing" THEN ReloadErrorOf("unreadable")
                        ELSE ReloadErrorOf(configFile.kind)
          IN  /\ ckPc' = IF error = 0 THEN "lock" ELSE "wait"
              /\ reloadError' = error
              /\ configFileChange' = IF error = 0 THEN configFileChange ELSE configFileStat
       \* line 72: the descriptor of open(); no line of the file closes it
       /\ openFiles' = IF Opens(configFile.kind) THEN openFiles + 1 ELSE openFiles
       /\ UNCHANGED <<arenaVars, swapVars, builderVars, valueVars, mainPc, escaped,
                      timezone>>
       /\ UNCHANGED <<replicatorFinished, lastWrite, finalWrites, configFile,
                      configFileStat, schemaElements, maps, touched, mtxTransaction,
                      rpPc>>

\* a mutant of LockFree: the mutex does not keep anybody out
LockFreeAlways(owner) == TRUE

\* std::unique_lock on Metadata::mtxTransaction: the mutex has no owner
LockFree(owner) == owner = "none"

\* a step of the schema update
SchemaStep(from, to, lock, elements, fresh, built, touch) ==
    /\ ckPc = from
    /\ ckPc' = to
    /\ mtxTransaction' = lock
    /\ schemaElements' = elements
    /\ newSchemaElements' = fresh
    /\ maps' = built
    /\ touched' = touch
    /\ configFileChange' = IF to = "wait" THEN configFileStat ELSE configFileChange
    /\ CheckpointNoCtx
    /\ UNCHANGED <<replicatorFinished, lastWrite, finalWrites, configFile, configFileStat,
                   reloadError, rpPc>>

\* the schema update of Checkpoint::updateConfigFile, lines 219-238
UpdateConfigFile ==
    \* line 222: the lock
    \/ /\ LockFree(mtxTransaction)
       /\ SchemaStep("lock", "commitElements", "checkpoint",
                     schemaElements, newSchemaElements, maps, touched)
    \* line 223: the pending filter set becomes the committed one
    \/ SchemaStep("commitElements", "purgeMetadata", mtxTransaction,
                  newSchemaElements, {}, maps, touched)
    \* line 224
    \/ SchemaStep("purgeMetadata", "touchTable", mtxTransaction,
                  schemaElements, newSchemaElements, {}, touched)
    \* lines 227-228
    \/ SchemaStep("touchTable", "buildMaps", mtxTransaction,
                  schemaElements, newSchemaElements, maps, TRUE)
    \* lines 230-233
    \/ SchemaStep("buildMaps", "resetTouched", mtxTransaction,
                  schemaElements, newSchemaElements, schemaElements, touched)
    \* lines 235-237, the unlock at the end of the block, and line 101 of
    \* trackConfigFile
    \/ SchemaStep("resetTouched", "wait",
                  IF mtxTransaction = "checkpoint" THEN "none" ELSE mtxTransaction,
                  schemaElements, newSchemaElements, maps, FALSE)

\* the replay of a transaction takes Metadata::mtxTransaction and gives it
\* back when the transaction is flushed
Replay(from, to, owner) ==
    /\ rpPc = from
    /\ rpPc' = to
    /\ mtxTransaction' = owner
    /\ CheckpointNoCtx
    /\ UNCHANGED <<replicatorFinished, ckPc, lastWrite, finalWrites, configFile,
                   configFileStat, configFileChange, reloadError, newSchemaElements,
                   schemaElements, maps, touched>>

\* the replay thread: lock, and unlock
ReplayTransaction ==
    \/ /\ ~replicatorFinished
       /\ LockFree(mtxTransaction)
       /\ Replay("idle", "replay", "replay")
    \/ Replay("replay", "idle",
              IF mtxTransaction = "replay" THEN "none" ELSE mtxTransaction)

NextCheckpoint ==
    \/ Run
    \/ TrackConfigFile
    \/ UpdateConfigFile
    \/ ReplayTransaction
    \/ \E kind \in FileKinds : EditConfigFile(kind)
    \/ StopSoft
    \/ ReplicatorFinish
    \/ StopHardFlag
    \/ StopHardNotify

SpecCheckpoint == InitArena({Json(16, 17, 5, 4)}) /\ [][NextCheckpoint]_vars

\* the thread is scheduled, wait_for times out, and a replay ends
CheckpointProgress ==
    \/ Run
    \/ TrackConfigFile
    \/ UpdateConfigFile
    \/ rpPc = "replay" /\ ReplayTransaction

FairCheckpoint == SpecCheckpoint /\ WF_vars(CheckpointProgress)

-----------------------------------------------------------------------------
(* Claims about the checkpoint thread *)

\* C11: once softShutdown and replicatorFinished are both set the checkpoint
\* thread leaves its loop and ends with a final checkpoint, unless a hard
\* shutdown (which an exception in the thread brings about) comes first; the
\* thread writes at most one final checkpoint and no checkpoint after it
C11_OneFinalCheckpoint ==
    /\ [](finalWrites <= 1 /\ (finalWrites = 1 => lastWrite = "final"))
    /\ (softShutdown /\ replicatorFinished)
          ~> \/ hardShutdown
             \/ ckPc = "finished" /\ finalWrites = 1 /\ lastWrite = "final"

\* the thread has ended after a soft shutdown with a periodic checkpoint or
\* more and then the final one
C11_Witness ==
    /\ ckPc = "finished"
    /\ ~hardShutdown
    /\ replicatorFinished
    /\ finalWrites = 1
    /\ lastWrite = "final"

\* a step in which a reload of the config file ends with an error
ReloadFails == ckPc \in {"track", "reload"} /\ ckPc' # ckPc /\ reloadError' # 0

\* C12: a reload of the config file that fails is logged and ignored: the
\* thread goes on with its loop, and the committed filter set and the
\* shutdown flags are what they were
C12_ReloadFailureIgnored ==
    [][ReloadFails =>
          /\ ckPc' = "wait"
          /\ schemaElements' = schemaElements
          /\ hardShutdown' = hardShutdown
          /\ softShutdown' = softShutdown]_vars

\* the schema update of updateConfigFile is under way
InSchemaUpdate ==
    ckPc \in {"commitElements", "purgeMetadata", "touchTable", "buildMaps", "resetTouched"}

\* C13: while a replay step holds mtxTransaction the checkpoint thread is
\* at none of the steps of the schema update, the schema maps are those of
\* the committed filter set and no table is marked as touched, and neither
\* of them changes: the replay sees the old filter set and its maps or the
\* new filter set with the maps rebuilt for it
C13_SchemaUpdateAtomic ==
    /\ [](rpPc = "replay" =>
             /\ ~InSchemaUpdate
             /\ maps = schemaElements
             /\ ~touched)
    /\ [][(rpPc = "replay" /\ rpPc' = "replay") =>
             /\ schemaElements' = schemaElements
             /\ maps' = maps]_vars

\* a replay step holds the mutex after a reload has committed a new filter
\* set, and the checkpoint thread waits for the mutex with the next one
C13_Witness ==
    /\ rpPc = "replay"
    /\ ckPc = "lock"
    /\ schemaElements = {1}
    /\ newSchemaElements = {2}

-----------------------------------------------------------------------------
(* Values: the decoding of a NUMBER column *)

\* the decimals that are encoded: n / 10^k and its negation, n up to
\* MaxNumber, k up to MaxScale
MaxNumber == 1200
MaxScale == 4

Numbers ==
    {NoNumber} \cup
    {[negative |-> s, n |-> n, k |-> k] :
        s \in BOOLEAN, n \in 1..MaxNumber, k \in 0..MaxScale}

\* Ctx::map10: the character of a decimal digit; the table has ten entries
Map10(digit) ==
    CASE digit = 0 -> "0" [] digit = 1 -> "1" [] digit = 2 -> "2"
      [] digit = 3 -> "3" [] digit = 4 -> "4" [] digit = 5 -> "5"
      [] digit = 6 -> "6" [] digit = 7 -> "7" [] digit = 8 -> "8"
      [] digit = 9 -> "9" [] OTHER -> "?"

RECURSIVE StripZeros(_, _)
\* the sequence without the elements equal to zero at its end
StripZeros(s, zero) ==
    IF s # <<>> /\ s[Len(s)] = zero THEN StripZeros(SubSeq(s, 1, Len(s) - 1), zero)
    ELSE s

\* the wire format of the database: zero is the byte 0x80; a positive value
\* has the indicator 0xC0 + exponent and each base-100 digit stored plus 1; a
\* negative value has the indicator 0x3F - exponent, each digit stored as 101
\* minus the digit and the terminator 0x66 when there are fewer than 20
\* digits. The exponent is the number of base-100 digits to the left of the
\* decimal point; the mantissa has no zero digit at its end
Encode(x) ==
    LET RECURSIVE Base100(_)
        Base100(n) == IF n = 0 THEN <<>> ELSE Append(Base100(n \div 100), n % 100)
        aligned == IF x.k % 2 = 1 THEN x.n * 10 ELSE x.n
        mantissa == StripZeros(Base100(aligned), 0)
        exponent == Len(Base100(aligned)) - ((x.k + (x.k % 2)) \div 2)
    IN  IF x.n = 0 THEN <<128>>
        ELSE IF ~x.negative
             THEN <<192 + exponent>> \o [i \in 1..Len(mantissa) |-> mantissa[i] + 1]
             ELSE <<63 - exponent>> \o [i \in 1..Len(mantissa) |-> 101 - mantissa[i]]
                    \o (IF Len(mantissa) < 20 THEN <<102>> ELSE <<>>)

\* a mutant of NumberLast: the last digit is written even when it is zero
NumberLastWhole(value) == <<Map10(value \div 10), Map10(value % 10)>>

\* the last digit - optional, Builder.h lines 538-541 and 598-601
NumberLast(value) ==
    LET tens == IF value < 0 THEN 10 ELSE value \div 10
        units == IF value < 0 THEN (value + 6) % 10 ELSE value % 10
    IN  <<Map10(tens)>> \o (IF units # 0 THEN <<Map10(units)>> ELSE <<>>)

\* the branch of a positive (lines 485-542) or of a negative number (lines
\* 543-602) of parseNumber after jMax is set; j counts from 0 as in the
\* source, the first byte of column is column[1]
NumberDigits(column, jMax, negative) ==
    LET \* data[j] - 1 and 101 - data[j], an uint64_t: below zero it stands for
        \* the wrapped value 2^64 + value
        Value(j) == IF negative THEN 101 - column[j + 1] ELSE column[j + 1] - 1
        \* value / 10 and value % 10 of the uint64_t; 2^64 % 10 = 6, and a
        \* quotient above 9 is an index behind the table of map10
        Pair(value) ==
            IF value < 0 THEN <<Map10(10), Map10((value + 6) % 10)>>
            ELSE <<Map10(value \div 10), Map10(value % 10)>>
        \* while (digits > 0): the digits before the decimal point, "00"
        \* where the mantissa has ended
        RECURSIVE Total(_, _)
        Total(j, digits) ==
            IF digits = 0 THEN <<>>
            ELSE IF j <= jMax THEN Pair(Value(j)) \o Total(j + 1, digits - 1)
                 ELSE <<"0", "0">> \o Total(j, digits - 1)
        \* while (zeros > 0)
        RECURSIVE Zeros(_)
        Zeros(zeros) == IF zeros = 0 THEN <<>> ELSE <<"0", "0">> \o Zeros(zeros - 1)
        \* while (j <= jMax - 1U) and the last digit
        RECURSIVE Fraction(_)
        Fraction(j) ==
            IF j <= jMax - 1 THEN Pair(Value(j)) \o Fraction(j + 1)
            ELSE NumberLast(Value(j))
        digits == column[1]
        zero == IF negative THEN digits >= 63 ELSE digits <= 192
        zeros == IF ~zero THEN 0 ELSE IF negative THEN digits - 63 ELSE 192 - digits
        count == IF zero THEN 0 ELSE IF negative THEN 63 - digits ELSE digits - 192
        first == IF zero THEN <<"0">>
                 ELSE IF Value(1) >= 0 /\ Value(1) < 10 THEN <<Map10(Value(1))>>
                      ELSE Pair(Value(1))
        \* j when the loop of the digits before the point has ended
        after == IF zero THEN 1
                 ELSE IF jMax < 2 THEN 2
                 ELSE IF count - 1 <= jMax - 1 THEN count + 1 ELSE jMax + 1
        total == IF zero THEN <<>> ELSE Total(2, count - 1)
        fraction == IF after <= jMax
                    THEN <<".">> \o Zeros(zeros) \o Fraction(after)
                    ELSE <<>>
    IN  (IF negative THEN <<"-">> ELSE <<>>) \o first \o total \o fraction

\* Builder::parseNumber, Builder.h lines 470-605: the text and the code of
\* the exception
parseNumber(column) ==
    LET size == Len(column)
        digits == column[1]
        jMax == size - 1
    IN  IF digits = 128 THEN [error |-> 0, text |-> <<"0">>]
        ELSE IF digits > 128 /\ jMax >= 1
             THEN [error |-> 0, text |-> NumberDigits(column, jMax, FALSE)]
             ELSE IF digits < 128 /\ jMax >= 1
                  THEN [error |-> 0,
                        text |-> NumberDigits(
                                    column,
                                    IF column[jMax + 1] = 102 THEN jMax - 1 ELSE jMax,
                                    TRUE)]
                  ELSE [error |-> 50009, text |-> <<>>]

\* the database writes the column of the value into the redo log
EncodeNumber ==
    /\ data = <<>>
    /\ data' = Encode(number)
    /\ UNCHANGED <<arenaVars, swapVars, builderVars, checkpointVars, number,
                   valueBuffer, thrown, lob, lobResult, otherVars>>

\* the builder decodes the column: processValue calls parseNumber
ProcessNumber ==
    /\ data # <<>>
    /\ valueBuffer = <<>>
    /\ thrown = 0
    /\ valueBuffer' = parseNumber(data).text
    /\ thrown' = parseNumber(data).error
    /\ UNCHANGED <<arenaVars, swapVars, builderVars, checkpointVars, number, data,
                   lob, lobResult, otherVars>>

InitNumber ==
    /\ InitProgram({Json(16, 17, 5, 4)})
    /\ number \in Numbers
    /\ data = <<>>
    /\ valueBuffer = <<>>
    /\ thrown = 0
    /\ lob = NoLob
    /\ lobResult = <<>>

NextNumber == EncodeNumber \/ ProcessNumber

SpecNumber == InitNumber /\ [][NextNumber]_vars

-----------------------------------------------------------------------------
(* Claims about parseNumber *)

\* the decimal text of n / 10^k: no zeros in front of the integer part but
\* the single one of a value below 1, no zeros at the end of the fraction
\* and no decimal point without a fraction
Text(x) ==
    LET RECURSIVE Decimal(_)
        Decimal(n) ==
            IF n < 10 THEN <<Map10(n)>> ELSE Append(Decimal(n \div 10), Map10(n % 10))
        RECURSIVE Pow10(_)
        Pow10(k) == IF k = 0 THEN 1 ELSE 10 * Pow10(k - 1)
        RECURSIVE Padded(_, _)
        Padded(n, width) ==
            IF width = 0 THEN <<>>
            ELSE Append(Padded(n \div 10, width - 1), Map10(n % 10))
        fraction == StripZeros(Padded(x.n % Pow10(x.k), x.k), "0")
    IN  (IF x.negative /\ x.n # 0 THEN <<"-">> ELSE <<>>)
            \o Decimal(x.n \div Pow10(x.k))
            \o (IF fraction = <<>> THEN <<>> ELSE <<".">> \o fraction)

\* C20: parseNumber applied to the encoding of an exact decimal gives the
\* decimal text of the same value, with no zeros in front or at the end that
\* the value does not need, and raises no error
C20_NumberRoundTrip ==
    (data # <<>> /\ (valueBuffer # <<>> \/ thrown # 0)) =>
        /\ data = Encode(number)
        /\ thrown = 0
        /\ valueBuffer = Text(number)

\* -0.0005 is decoded from the bytes 0x40 0x60 0x66
C20_Witness ==
    /\ number = [negative |-> TRUE, n |-> 5, k |-> 4]
    /\ data = <<64, 96, 102>>
    /\ valueBuffer = <<"-", "0", ".", "0", "0", "0", "5">>

-----------------------------------------------------------------------------
(* Values: the assembly of a LOB column *)

\* the pages of a LOB are numbered 0..MaxLobPage, and so are the data blocks
MaxLobPage == 2

\* LobData::pageSize, in bytes
LobPageSize == 2

LobPages == 0..MaxLobPage

\* lobCtx->lobs.find(lobId) finds nothing
NoLobData ==
    [found |-> FALSE, pageSize |-> 0, sizePages |-> 0, sizeRest |-> 0,
     indexMap |-> {}, dataMap |-> [p \in LobPages |-> 0]]

\* what the LOB index and LOB data records of the redo log have left in
\* LobData when the row is processed: the size the index declares, the page
\* numbers the index map holds (page number n is the block n) and for each
\* block the lobDataSize of its record (0: no record for this block)
LobDatas(sizePages, sizeRests) ==
    {[found |-> TRUE, pageSize |-> LobPageSize, sizePages |-> p, sizeRest |-> r,
      indexMap |-> ix, dataMap |-> dm] :
        p \in sizePages, r \in sizeRests, ix \in SUBSET LobPages,
        dm \in [LobPages -> 0..LobPageSize]}

\* a locator with the fields that parseLob reads from it: size, flags =
\* data[5], bodySize at 20, flg2 at 22, and by layout pageCnt at 24, sizeRest
\* at 28 and the page numbers from 36 on, or zero1 at 24, chunkSize at 28 and
\* zero2 at 30, or flg3 = data[26], flg4 = data[27] and totalLobSize at 28
Locator(size, flags, bodySize, flg2) ==
    [size |-> size, flags |-> flags, bodySize |-> bodySize, flg2 |-> flg2,
     pageCnt |-> 0, sizeRest |-> 0, pages |-> <<>>, zero1 |-> 0, chunkSize |-> 0,
     zero2 |-> 0, flg3 |-> 0, flg4 |-> 0, totalLobSize |-> 0, lobData |-> NoLobData]

\* the locators given to parseLob, layout by layout
Locators ==
    LET inIndex ==
            {[Locator(s, 0, 0, 0) EXCEPT !.lobData = d] :
                s \in {19, 20}, d \in LobDatas(LobPages, 0..1) \cup {NoLobData}}
        inRowIndex ==
            {[Locator(36 + 4 * Len(pg), 4, b + 4 * Len(pg), 1024) EXCEPT
                 !.pageCnt = n, !.sizeRest = r, !.pages = pg, !.lobData = d] :
                b \in {16, 17}, n \in LobPages, r \in 0..1,
                pg \in UNION {[1..k -> LobPages] : k \in 0..2},
                d \in LobDatas({0}, {0}) \cup {NoLobData}}
        inValue ==
            {[Locator(c + b + 20, 4, c + b, 256) EXCEPT
                 !.zero1 = z1, !.chunkSize = c, !.zero2 = z2] :
                c \in 0..LobPageSize, z1 \in 0..1, z2 \in 0..1, b \in {16, 17}}
        inRowData ==
            {[Locator(s, 4, s - 20, 2048) EXCEPT
                 !.flg3 = f3, !.flg4 = f4, !.totalLobSize = t] :
                s \in 29..36, f3 \in 0..3, f4 \in 0..2, t \in 0..LobPageSize}
    IN  inIndex \cup inRowIndex \cup inValue \cup inRowData \cup {Locator(22, 4, 0, 0)}

\* what a call of parseLob has done: the value it returned, the sizes given
\* to addLobToOutput one after the other, the warnings as <<code, location>>
\* and the number of bytes it copied from behind the end of the locator
LobReturn(ret, chunks, warnings, beyond) ==
    [ret |-> ret, chunks |-> chunks, warnings |-> warnings, beyond |-> beyond]

\* ctx->warning(60003, "incorrect LOB ... location: n"); return false
LobIncorrect(location) == LobReturn(FALSE, <<>>, <<<<60003, location>>>>, 0)

\* the end of the in-row branch, Builder.h lines 1100-1110
LobSum(totalLobSize, chunks, warnings, beyond) ==
    IF totalLobSize # 0
    THEN LobReturn(FALSE, chunks, warnings \o <<<<60007, 0>>, <<60006, 0>>>>, beyond)
    ELSE LobReturn(TRUE, chunks, warnings, beyond)

\* the in-index branch, lines 642-691: one chunk for each entry of the index
\* map, in the order of the page numbers
LobInIndex(l) ==
    LET d == l.lobData
        RECURSIVE Pages(_, _, _, _, _)
        Pages(rest, pageNo, chunks, warnings, hasNext) ==
            IF rest = {}
            THEN LobReturn(TRUE, IF hasNext THEN Append(chunks, 0) ELSE chunks,
                           warnings, 0)
            ELSE LET pageNoLob == CHOOSE p \in rest : \A q \in rest : p <= q
                     w == IF pageNo # pageNoLob THEN Append(warnings, <<60003, 2>>)
                          ELSE warnings
                     last == pageNoLob = d.sizePages
                 IN  IF d.dataMap[pageNoLob] = 0 THEN LobReturn(FALSE, chunks, w, 0)
                     ELSE Pages(rest \ {pageNoLob}, pageNoLob + 1,
                                Append(chunks, IF last THEN d.sizeRest ELSE d.pageSize),
                                w, hasNext /\ ~last)
    IN  IF ~d.found THEN LobReturn(TRUE, <<>>, <<>>, 0)
        ELSE Pages(d.indexMap, 0, <<>>, <<>>, TRUE)

\* the in-row branch with the pages in the LOB index, lines 710-788
LobInRowIndex(l) ==
    LET d == l.lobData
        jMax == l.pageCnt + (IF l.sizeRest > 0 THEN 1 ELSE 0)
        RECURSIVE Pages(_, _, _, _)
        Pages(j, totalLobSize, chunks, warnings) ==
            LET dataOffset == 36 + 4 * j
                inLocator == dataOffset < l.size
                page == IF inLocator THEN l.pages[j + 1] ELSE j
                chunkSize == IF j < l.pageCnt THEN d.dataMap[page] ELSE l.sizeRest
            IN  IF j >= jMax THEN LobSum(totalLobSize, chunks, warnings, 0)
                ELSE IF inLocator /\ l.size < dataOffset + 4
                     THEN LobReturn(FALSE, chunks, Append(warnings, <<60003, 6>>), 0)
                ELSE IF ~inLocator /\ j \notin d.indexMap
                     THEN LobSum(totalLobSize, chunks, Append(warnings, <<60004, 0>>), 0)
                ELSE IF d.dataMap[page] = 0 THEN LobReturn(FALSE, chunks, warnings, 0)
                ELSE Pages(j + 1, totalLobSize - chunkSize, Append(chunks, chunkSize),
                           warnings)
    IN  IF l.size < 36 THEN LobIncorrect(5)
        ELSE IF ~d.found THEN LobReturn(FALSE, <<>>, <<>>, 0)
        ELSE IF l.pageCnt * d.pageSize + l.sizeRest = 0
             THEN LobReturn(TRUE, <<>>, <<>>, 0)
             ELSE Pages(0, l.pageCnt * d.pageSize + l.sizeRest, <<>>, <<>>)

\* the in-value branch, lines 789-820
LobInValue(l) ==
    IF l.bodySize < 16 THEN LobIncorrect(7)
    ELSE IF l.size < 34 THEN LobIncorrect(8)
    ELSE IF l.zero1 # 0 \/ l.zero2 # 0 \/ l.chunkSize + 16 # l.bodySize
         THEN LobIncorrect(9)
    ELSE IF l.chunkSize = 0 THEN LobSum(0, <<>>, <<>>, 0)
    ELSE IF l.size < l.chunkSize + 36 THEN LobIncorrect(10)
    ELSE LobSum(0, <<l.chunkSize>>, <<>>, 0)

\* the branch of the newer locators, lines 821-899, with the data in the row
\* (flg2 & 0x0800)
LobInRowData(l) ==
    LET width == l.flg3 % 4
        least == IF width <= 1 THEN 30 ELSE 32
        dataOffset == 29 + width + (IF l.flg4 % 16 = 0 THEN 1 ELSE 2)
        chunkSize == l.totalLobSize
    IN  IF l.bodySize < 10 THEN LobIncorrect(11)
        ELSE IF l.size < least THEN LobIncorrect(12 + width)
        ELSE IF l.flg4 % 16 > 1 THEN LobIncorrect(17)
        ELSE IF l.totalLobSize = 0 THEN LobReturn(TRUE, <<>>, <<>>, 0)
        ELSE IF dataOffset + chunkSize < l.size THEN LobIncorrect(18)
        ELSE LobSum(l.totalLobSize - chunkSize, <<chunkSize>>, <<>>,
                    IF dataOffset + chunkSize > l.size
                    THEN dataOffset + chunkSize - l.size ELSE 0)

\* Builder::parseLob, Builder.h lines 626-1111
parseLob(l) ==
    IF l.size < 20 THEN LobIncorrect(1)
    ELSE IF (l.flags \div 4) % 2 = 0 THEN LobInIndex(l)
    ELSE IF l.size < 23 THEN LobIncorrect(3)
    ELSE IF l.size # l.bodySize + 20 THEN LobIncorrect(4)
    ELSE IF (l.flg2 \div 1024) % 2 = 1 THEN LobInRowIndex(l)
    ELSE IF (l.flg2 \div 256) % 2 = 1 THEN LobInValue(l)
    ELSE LobInRowData(l)

\* the builder assembles the column: processValue calls parseLob
ProcessLob ==
    /\ lobResult = <<>>
    /\ lobResult' = <<parseLob(lob)>>
    /\ UNCHANGED <<arenaVars, swapVars, builderVars, checkpointVars, number, data,
                   valueBuffer, thrown, lob, otherVars>>

InitLob ==
    /\ InitProgram({Json(16, 17, 5, 4)})
    /\ number = NoNumber
    /\ data = <<>>
    /\ valueBuffer = <<>>
    /\ thrown = 0
    /\ lob \in Locators
    /\ lobResult = <<>>

NextLob == ProcessLob

SpecLob == InitLob /\ [][NextLob]_vars

-----------------------------------------------------------------------------
(* Claims about parseLob *)

\* the size of the LOB that the locator or, for the in-index layout, the LOB
\* index declares
DeclaredLobSize(l) ==
    IF (l.flags \div 4) % 2 = 0
    THEN l.lobData.pageSize * l.lobData.sizePages + l.lobData.sizeRest
    ELSE IF (l.flg2 \div 1024) % 2 = 1 THEN l.pageCnt * l.lobData.pageSize + l.sizeRest
    ELSE IF (l.flg2 \div 256) % 2 = 1 THEN l.chunkSize
    ELSE l.totalLobSize

\* the total size of the chunks given to addLobToOutput
EmittedLobSize(r) ==
    LET RECURSIVE Sum(_)
        Sum(s) == IF s = <<>> THEN 0 ELSE s[1] + Sum(Tail(s))
    IN  Sum(r.chunks)

\* C19: when parseLob returns true after it has emitted data, the total size
\* of the chunks it emitted is the declared size of the LOB, in the in-index,
\* in-row and in-value layouts, and no error is raised
C19_LobTotalMatches ==
    lobResult # <<>> =>
        /\ thrown = 0
        /\ (lobResult[1].ret /\ lobResult[1].chunks # <<>>) =>
              EmittedLobSize(lobResult[1]) = DeclaredLobSize(lob)

-----------------------------------------------------------------------------
(* parseNumber on columns of any bytes *)

\* a column has at most this many bytes
MaxColumn == 3

\* the columns given to parseNumber: the indicators 0x3E, 0x80 and 0xC1 and
\* the bytes 0, 1, 11, 101 and 0x66 in all orders
Columns ==
    UNION {[1..k -> {0, 1, 11, 62, 101, 102, 128, 193}] : k \in 1..MaxColumn}

InitColumn ==
    /\ InitProgram({Json(16, 17, 5, 4)})
    /\ number = NoNumber
    /\ data \in Columns
    /\ valueBuffer = <<>>
    /\ thrown = 0
    /\ lob = NoLob
    /\ lobResult = <<>>

NextColumn == ProcessNumber

SpecColumn == InitColumn /\ [][NextColumn]_vars

\* the column is zero, or a positive indicator and base-100 digits stored
\* plus 1, or a negative indicator, digits stored as 101 minus the digit and
\* the terminator 0x66 where there are fewer than 20 digits
ValidShape(column) ==
    LET size == Len(column) IN
    \/ column = <<128>>
    \/ /\ column[1] > 128 /\ size >= 2 /\ size <= 21
       /\ \A i \in 2..size : column[i] \in 1..100
    \/ /\ column[1] < 128 /\ size >= 3 /\ size <= 21
       /\ \A i \in 2..(size - 1) : column[i] \in 2..101
       /\ column[size] = 102 \/ (size = 21 /\ column[size] \in 2..101)

\* C21: for a column that has none of the three valid shapes parseNumber
\* raises error 50009 and writes no digit
C21_InvalidShapeRaises ==
    (number = NoNumber /\ (valueBuffer # <<>> \/ thrown # 0) /\ ~ValidShape(data)) =>
        thrown = 50009 /\ valueBuffer = <<>>

-----------------------------------------------------------------------------
(* Claims about the accepted memory configurations *)

\* C22: the arena is initialized with memoryChunksMin <= memoryChunksMax,
\* whichever of "min-mb" and "max-mb" the memory object holds
C22_MinWithinMax == memoryChunksMin <= memoryChunksMax

\* an accepted memory object whose "write-buffer-min-mb" is above "min-mb"
FreeListConfigs ==
    { [Json(16, 32, Absent, Absent) EXCEPT !.writeBufferMinMb = 17] }

\* a chunk read from below the free list is no chunk: what the program does
\* with it is not followed
NextFreeList == memoryChunksFree >= 0 /\ NextWriteBuffer

SpecFreeList == InitArena(FreeListConfigs) /\ [][NextFreeList]_vars

\* C23: whenever getMemoryChunk takes a chunk from the free list,
\* memoryChunksFree was at least 1 before, also when a builder below its
\* minimum is served without a look at the free list
C23_FreeListNoUnderflow ==
    [][memoryChunksFree' = memoryChunksFree - 1 => memoryChunksFree >= 1]_vars

-----------------------------------------------------------------------------
(* Ctx::mainLoop: the main thread waits for the shutdown *)

\* the main thread has no more to give up than the registers of its step
MainNoCtx ==
    UNCHANGED <<arenaVars, swapVars, builderVars, checkpointVars, valueVars,
                openFiles, escaped, timezone>>

\* Ctx::mainLoop, Ctx.cpp lines 1167-1180: under mtx hardShutdown is tested,
\* and nothing else; condMainLoop.wait is called once and without a
\* predicate, so the thread returns as soon as it is woken
MainLoop ==
    \/ /\ mainPc = "start"
       /\ mainPc' = IF hardShutdown THEN "returned" ELSE "waiting"
       /\ MainNoCtx
    \/ /\ mainPc = "notified"
       /\ mainPc' = "returned"
       /\ MainNoCtx

\* condMainLoop.wait may return without a notification; nothing makes it
MainSpuriousWakeUp ==
    /\ mainPc = "waiting"
    /\ mainPc' = "returned"
    /\ MainNoCtx

NextMain ==
    \/ NextCheckpoint
    \/ MainLoop
    \/ MainSpuriousWakeUp

SpecMain == InitArena({Json(16, 17, 5, 4)}) /\ [][NextMain]_vars

\* the main thread and the checkpoint thread are scheduled
FairMain == SpecMain /\ WF_vars(MainLoop) /\ WF_vars(CheckpointProgress)

\* C24: once stopSoft or stopHard has been called, whether before or after
\* the main thread started to wait, mainLoop eventually returns
C24_StopEndsMainLoop == (softShutdown \/ hardShutdown) ~> (mainPc = "returned")

-----------------------------------------------------------------------------
(* Claim about the descriptor of the config file *)

\* C28: when trackConfigFile has returned, on success or on any failure
\* after the open, the descriptor it opened is closed: the checkpoint thread
\* holds no open descriptor while it waits for the next round
C28_DescriptorClosed == ckPc = "wait" => openFiles = 0

-----------------------------------------------------------------------------
(* Claims about the accounting of the arena *)

\* C25: a call of getMemoryChunk that ends with a null result has changed
\* neither memoryChunksFree nor the counter of its module, and a call that
\* ends with error 10018 after it has taken a chunk from the free list
\* (lines 835-837) has put the two counters back before it throws
C25_FailedCallKeepsAccounting ==
    [][\A t \in Threads :
         /\ (pc[t] # "null" /\ pc'[t] = "null") =>
                UNCHANGED <<memoryChunksFree, memoryModulesAllocated>>
         /\ (pc[t] = "out" /\ pc'[t] = "threw10018") =>
                /\ memoryChunksFree' = memoryChunksFree + 1
                /\ memoryModulesAllocated'[req[t].module] =
                       memoryModulesAllocated[req[t].module] - 1]_vars

\* C26: in every reachable state of the arena memoryChunksFree is at most
\* memoryChunksAllocated, the chunks in use (memoryChunksAllocated less
\* memoryChunksFree) are the sum of the four counters of
\* memoryModulesAllocated, and no counter has gone below zero (the counters
\* are unsigned: a counter below zero shows as a value above every size)
C26_ArenaAccounting ==
    LET modules == {READER, BUILDER, PARSER, TRANSACTIONS}
        RECURSIVE Sum(_)
        Sum(S) == IF S = {} THEN 0
                  ELSE LET m == CHOOSE x \in S : TRUE
                       IN  memoryModulesAllocated[m] + Sum(S \ {m})
    IN  /\ UGE(memoryChunksAllocated, memoryChunksFree)
        /\ memoryChunksAllocated - memoryChunksFree = Sum(modules)
        /\ \A m \in modules : memoryModulesAllocated[m] >= 0

\* C27: when parseLob copies the body of an inline LOB (flg2 & 0x0800) it
\* reads no byte from behind the end of the record: a record whose body
\* would end behind its size is rejected with a warning and nothing is
\* copied
C27_InlineCopyInside ==
    (lobResult # <<>> /\ (lob.flg2 \div 2048) % 2 = 1) => lobResult[1].beyond = 0

-----------------------------------------------------------------------------
(* BuilderJson::appendEscape: names and attributes in the JSON message *)

\* a name has at most this many bytes
MaxEscape == 2

\* the bytes of the names: control characters with and without a short
\* escape, the quote, the solidus, the backslash, letters, a digit and a
\* byte of a UTF-8 sequence
EscapeBytes == {0, 8, 9, 10, 11, 12, 13, 16, 31, 34, 47, 92, 49, 65, 117, 128}

EscapeStrings == UNION {[1..k -> EscapeBytes] : k \in 1..MaxEscape}

\* BuilderJson::appendDec(value, size), BuilderJson.h lines 510-527: the
\* last size decimal digits of value, the highest first, as character codes
appendDec(value, size) ==
    LET Code(c) == CASE c = "0" -> 48 [] c = "1" -> 49 [] c = "2" -> 50
                     [] c = "3" -> 51 [] c = "4" -> 52 [] c = "5" -> 53
                     [] c = "6" -> 54 [] c = "7" -> 55 [] c = "8" -> 56
                     [] c = "9" -> 57 [] OTHER -> 63
        RECURSIVE Buffer(_, _)
        Buffer(v, i) == IF i = size THEN <<>>
                        ELSE Buffer(v \div 10, i + 1) \o <<Code(Map10(v % 10))>>
    IN  Buffer(value, 0)

\* lines 597-599: "\u00" and appendDec(*str, 2)
EscapeControl(c) == <<92, 117, 48, 48>> \o appendDec(c, 2)

\* BuilderJson::appendEscape(str, size), BuilderJson.h lines 585-608: what
\* it appends for one character
EscapeChar(c) ==
    IF c = 9 THEN <<92, 116>>
    ELSE IF c = 13 THEN <<92, 114>>
    ELSE IF c = 10 THEN <<92, 110>>
    ELSE IF c = 12 THEN <<92, 102>>
    ELSE IF c = 8 THEN <<92, 98>>
    ELSE IF c < 32 THEN EscapeControl(c)
    ELSE (IF c \in {34, 92, 47} THEN <<92>> ELSE <<>>) \o <<c>>

appendEscape(str) ==
    LET RECURSIVE Loop(_)
        Loop(s) == IF s = <<>> THEN <<>> ELSE EscapeChar(Head(s)) \o Loop(Tail(s))
    IN  Loop(str)

\* the builder writes a name into the message
AppendEscape ==
    /\ ~escaped.done
    /\ \E str \in EscapeStrings :
         escaped' = [str |-> str, out |-> appendEscape(str), done |-> TRUE]
    /\ UNCHANGED <<arenaVars, swapVars, builderVars, checkpointVars, valueVars,
                   mainPc, openFiles, timezone>>

NextEscape == AppendEscape

SpecEscape == InitArena({Json(16, 17, 5, 4)}) /\ [][NextEscape]_vars

\* the string a JSON parser reads from the text between two quotes (RFC
\* 8259, section 7): the two-character escapes, \u and four hexadecimal
\* digits, and every other character as it stands
JsonUnescape(text) ==
    LET Hex(c) == IF c \in 48..57 THEN c - 48
                  ELSE IF c \in 65..70 THEN c - 55
                  ELSE IF c \in 97..102 THEN c - 87 ELSE 0
        Short(c) == CASE c = 116 -> 9 [] c = 114 -> 13 [] c = 110 -> 10
                      [] c = 102 -> 12 [] c = 98 -> 8 [] OTHER -> c
        RECURSIVE Read(_)
        Read(s) ==
            IF s = <<>> THEN <<>>
            ELSE IF s[1] = 92 /\ Len(s) >= 6 /\ s[2] = 117
            THEN <<4096 * Hex(s[3]) + 256 * Hex(s[4]) + 16 * Hex(s[5]) + Hex(s[6])>>
                     \o Read(SubSeq(s, 7, Len(s)))
            ELSE IF s[1] = 92 /\ Len(s) >= 2
            THEN <<Short(s[2])>> \o Read(SubSeq(s, 3, Len(s)))
            ELSE <<s[1]>> \o Read(Tail(s))
    IN  Read(text)

\* C29: decoding by the JSON rules what appendEscape has written gives back
\* the bytes of the input, control characters below 0x20 included
C29_EscapeRoundTrip == escaped.done => JsonUnescape(escaped.out) = escaped.str

-----------------------------------------------------------------------------
(* Ctx::parseTimezone and Ctx::timezoneToString *)

\* the hours and the minutes of the offsets
MaxHour == 14
MaxMinute == 59

\* str[i] - '0' for a character that is a digit
DigitOf(c) ==
    CASE c = "0" -> 0 [] c = "1" -> 1 [] c = "2" -> 2 [] c = "3" -> 3 [] c = "4" -> 4
      [] c = "5" -> 5 [] c = "6" -> 6 [] c = "7" -> 7 [] c = "8" -> 8 [] c = "9" -> 9

\* str[i] >= '0' && str[i] <= '9'
IsDigit(c) == c \in {"0", "1", "2", "3", "4", "5", "6", "7", "8", "9"}

\* the offsets handed to parseTimezone, character by character: +HH:MM and
\* -HH:MM, the short form with one digit for the hour, and strings that are
\* no offset; none of them is one of the names of lines 399-458
TimezoneStrings ==
    LET two(n) == <<Map10(n \div 10), Map10(n % 10)>> IN
    {<<sign>> \o two(hh) \o <<":">> \o two(mm) :
        sign \in {"+", "-"}, hh \in 0..MaxHour, mm \in 0..MaxMinute}
    \cup {<<sign, Map10(h), ":">> \o two(mm) :
              sign \in {"+", "-"}, h \in {0, 5, 9}, mm \in {0, 30}}
    \cup {<<"+", "0", "5", "-", "3", "0">>, <<"0", "5", ":", "3", "0">>,
          <<" ", "0", "5", ":", "3", "0">>, <<"+", "0", "5", ":", "3">>}

\* Ctx::parseTimezone, Ctx.cpp lines 460-484: the value returned and out
parseTimezone(str) ==
    LET len == Len(str)
        d(i) == DigitOf(str[i])
        signed(out) == IF str[1] = "-" THEN [ret |-> TRUE, out |-> -out]
                       ELSE IF str[1] # "+" THEN [ret |-> FALSE, out |-> out]
                       ELSE [ret |-> TRUE, out |-> out]
    IN  IF len = 5
        THEN IF IsDigit(str[2]) /\ str[3] = ":" /\ IsDigit(str[4]) /\ IsDigit(str[5])
             THEN signed(-d(2) * 3600 + d(4) * 60 + d(5))
             ELSE [ret |-> FALSE, out |-> 0]
        ELSE IF len = 6
        THEN IF /\ IsDigit(str[2]) /\ IsDigit(str[3]) /\ str[4] = ":"
                /\ IsDigit(str[5]) /\ IsDigit(str[6])
             THEN signed(-d(2) * 36000 + d(3) * 3600 + d(5) * 60 + d(6))
             ELSE [ret |-> FALSE, out |-> 0]
        ELSE [ret |-> FALSE, out |-> 0]

\* Ctx::timezoneToString, Ctx.cpp lines 487-509
timezoneToString(tz) ==
    LET sign == IF tz < 0 THEN "-" ELSE "+"
        minutes == (IF tz < 0 THEN -tz ELSE tz) \div 60
        tens == minutes \div 10
        hours == tens \div 6
    IN  <<sign, Map10((hours \div 10) % 10), Map10(hours % 10), ":",
          Map10(tens % 6), Map10(minutes % 10)>>

\* the time zone of the configuration is parsed and, where it was accepted,
\* written again
ParseTimezone ==
    /\ timezone = NoTimezone
    /\ \E str \in TimezoneStrings :
         LET parsed == parseTimezone(str) IN
         timezone' = [str |-> str, ret |-> parsed.ret, out |-> parsed.out,
                      text |-> IF parsed.ret THEN timezoneToString(parsed.out)
                               ELSE <<>>]
    /\ UNCHANGED <<arenaVars, swapVars, builderVars, checkpointVars, valueVars,
                   mainPc, openFiles, escaped>>

NextTimezone == ParseTimezone

SpecTimezone == InitArena({Json(16, 17, 5, 4)}) /\ [][NextTimezone]_vars

\* C30: for an offset +HH:MM or -HH:MM with HH <= 14 and MM < 60
\* parseTimezone succeeds, the offset it gives has the magnitude
\* HH * 3600 + MM * 60 seconds and the sign of the string, and
\* timezoneToString of it is the string again
C30_TimezoneRoundTrip ==
    LET s == timezone.str
        magnitude == (10 * DigitOf(s[2]) + DigitOf(s[3])) * 3600
                         + (10 * DigitOf(s[5]) + DigitOf(s[6])) * 60
    IN  (Len(s) = 6 /\ s[1] \in {"+", "-"} /\ s[4] = ":") =>
            /\ timezone.ret
            /\ timezone.out = IF s[1] = "-" THEN -magnitude ELSE magnitude
            /\ timezone.text = s

====
